---- MODULE Spec2Model ----
(***************************************************************************)
(* fswatchd: the incremental hashing daemon and its subscription fabric.   *)
(*                                                                         *)
(* State: the daemon state (per-file cache, result cache, watcher map),    *)
(* the persisted watch set with its dirty flag and the file on disk, the   *)
(* global subscription map, the filesystem-event channel, the debounce     *)
(* map of the event pipeline, the broadcast receivers and the sessions.    *)
(* One action per critical section of every task: a step is what a task    *)
(* does between two await points while it holds (at most) one lock.        *)
(***************************************************************************)
EXTENDS Integers, Sequences, FiniteSets, TLC

(***************************************************************************)
(* Bounds of the model.                                                    *)
(***************************************************************************)
\* total number of read_line results (request lines and ends of stream), over
\* all connections
MaxReqs == 2
\* total number of filesystem operations performed by the environment
MaxFsOps == 1
\* number of watch entries the state file holds at startup
MaxLoaded == 1
\* read_line results when only watch, unwatch and disconnect are studied
MaxSessionReqs == 3
\* filesystem operations, and watch entries in the state file, when the
\* debounce of a burst of events is studied
MaxBurst == 2
MaxRestored == 2
\* number of file hashes handed to aggregate_hashes
MaxHashes == 3
\* handler, flush and restore runs started when the locking is studied
MaxRuns == 3
\* capacity of the filesystem-event channel (mpsc::channel(100)), scaled
EventChanCap == 2
\* capacity of the broadcast channel (broadcast::channel(100)), scaled
BroadcastCap == 2

(***************************************************************************)
(* Program constants.                                                      *)
(***************************************************************************)
DEBOUNCE_MS == 100
READ_TIMEOUT_MS == 50
\* width of the formatted subscription key and of the formatted hash
KEY_HEX_WIDTH == 32
HASH_HEX_WIDTH == 16
\* the model's stand-in for the xxh3 hash functions works modulo this prime
XxhModulus == 2^13 - 1

(***************************************************************************)
(* Strings are sequences of one-character strings, so that paths, globs    *)
(* and keys are compared and cut the way the code compares and cuts them.  *)
(* "nul" stands for the character U+0000, which a JSON string can carry as *)
(* \u0000.                                                                 *)
(***************************************************************************)
CharCode ==
  ("/" :> 47) @@ ("." :> 46) @@ ("*" :> 42) @@ ("-" :> 45) @@
  ("a" :> 97) @@ ("b" :> 98) @@ ("c" :> 99) @@ ("d" :> 100) @@
  ("e" :> 101) @@ ("f" :> 102) @@ ("k" :> 107) @@ ("l" :> 108) @@ ("n" :> 110) @@
  ("o" :> 111) @@ ("r" :> 114) @@ ("s" :> 115) @@ ("t" :> 116) @@
  ("x" :> 120) @@ ("y" :> 121) @@ ("[" :> 91) @@ ("nul" :> 0) @@
  ("0" :> 48) @@ ("1" :> 49) @@ ("2" :> 50) @@ ("3" :> 51) @@ ("4" :> 52) @@
  ("5" :> 53) @@ ("6" :> 54) @@ ("7" :> 55) @@ ("8" :> 56) @@ ("9" :> 57)

HexDigits == <<"0","1","2","3","4","5","6","7","8","9","a","b","c","d","e","f">>

\* str.as_bytes()
RECURSIVE as_bytes(_)
as_bytes(s) == IF s = <<>> THEN <<>> ELSE <<CharCode[Head(s)]>> \o as_bytes(Tail(s))

\* format!("{:0width$x}", n): lowercase hex, left-padded with zeros
RECURSIVE HexFormat(_, _)
HexFormat(n, width) ==
  IF width = 0 THEN <<>>
  ELSE HexFormat(n \div 16, width - 1) \o <<HexDigits[(n % 16) + 1]>>

\* xxh3_64 / xxh3_128 of a byte buffer: a deterministic function of the bytes
\* (the library's bit-level definition is outside the repository).
RECURSIVE XxhFold(_, _)
XxhFold(acc, bytes) ==
  IF bytes = <<>> THEN acc
  ELSE XxhFold((acc * 257 + Head(bytes) + 1) % XxhModulus, Tail(bytes))

xxh3_64(bytes) == XxhFold(7, bytes)

xxh3_128(bytes) == XxhFold(11, bytes)

(***************************************************************************)
(* protocol.rs                                                             *)
(***************************************************************************)
\* format!("{}\0{}\0{}", root, path, glob).as_bytes()
\* the three fields without the separators
key_input_joined(root, path, glob) == as_bytes(root) \o as_bytes(path) \o as_bytes(glob)

key_input(root, path, glob) ==
  as_bytes(root) \o <<0>> \o as_bytes(path) \o <<0>> \o as_bytes(glob)

make_subscription_key(root, path, glob) ==
  HexFormat(xxh3_128(key_input(root, path, glob)), KEY_HEX_WIDTH)

(***************************************************************************)
(* Paths.                                                                  *)
(***************************************************************************)
\* Path::components(): split at "/", dropping empty and "." components
RECURSIVE SplitPath(_, _)
SplitPath(s, cur) ==
  IF s = <<>> THEN (IF cur = <<>> \/ cur = <<".">> THEN <<>> ELSE <<cur>>)
  ELSE IF Head(s) = "/"
       THEN (IF cur = <<>> \/ cur = <<".">> THEN <<>> ELSE <<cur>>) \o SplitPath(Tail(s), <<>>)
       ELSE SplitPath(Tail(s), Append(cur, Head(s)))

Components(p) == SplitPath(p, <<>>)

IsPrefixSeq(a, b) == Len(a) <= Len(b) /\ SubSeq(b, 1, Len(a)) = a

\* Path::starts_with: component-wise prefix
starts_with_components(p, base) == IsPrefixSeq(Components(base), Components(p))

\* PathBuf::join for a relative segment
path_join(root, seg) == root \o <<"/">> \o seg

RECURSIVE JoinComponents(_)
JoinComponents(cs) ==
  IF cs = <<>> THEN <<>>
  ELSE IF Len(cs) = 1 THEN cs[1]
  ELSE cs[1] \o <<"/">> \o JoinComponents(Tail(cs))

\* Path::strip_prefix (only used when the path starts with base)
strip_prefix(p, base) ==
  JoinComponents(SubSeq(Components(p), Len(Components(base)) + 1, Len(Components(p))))

\* globset::Glob::new: an unclosed character class is a syntax error
RECURSIVE HasChar(_, _)
HasChar(s, c) == s # <<>> /\ (Head(s) = c \/ HasChar(Tail(s), c))

glob_is_valid(g) == ~HasChar(g, "[")

\* GlobMatcher::is_match: literal characters and "*", which also matches "/"
RECURSIVE glob_is_match(_, _)
glob_is_match(g, s) ==
  IF g = <<>> THEN s = <<>>
  ELSE IF Head(g) = "*"
       THEN glob_is_match(Tail(g), s) \/ (s # <<>> /\ glob_is_match(g, Tail(s)))
       ELSE s # <<>> /\ Head(s) = Head(g) /\ glob_is_match(Tail(g), Tail(s))

(***************************************************************************)
(* The universe of the model: two directories, the name of one a string    *)
(* prefix of the name of the other, a symbolic link /l to the directory    *)
(* /r, four files and three queries (and one more through the link).       *)
(***************************************************************************)
RootR == <<"/","r">>
RootRS == <<"/","r","s">>
RootL == <<"/","l">>
Roots == {RootR, RootRS, RootL}

FileA == <<"/","r","/","a",".","r","s">>
FileB == <<"/","r","/","s","/","b",".","r","s">>
FileC == <<"/","r","s","/","a",".","r","s">>
FileN == <<"/","r","s","/","n",".","t","x","t">>
Files == {FileA, FileB, FileC, FileN}

\* the file a name refers to: the link /l is followed
Resolve(p) ==
  IF p = RootL \/ IsPrefixSeq(RootL \o <<"/">>, p)
  THEN RootR \o SubSeq(p, Len(RootL) + 1, Len(p))
  ELSE p

\* the name under root r of a file that lies in the directory r refers to
NameUnder(r, f) == r \o SubSeq(f, Len(Resolve(r)) + 1, Len(f))

\* the names a walk or a watcher can produce: the files, and the files of
\* /r named through the link
PathNames == Files \cup {NameUnder(RootL, f) : f \in {FileA, FileB}}
FileOf == [n \in PathNames |-> Resolve(n)]

\* a WatchEntry / GlobKey: (root, path, glob)
Q1 == [root |-> RootR, path |-> <<".">>, glob |-> <<"*",".","r","s">>]
Q2 == [root |-> RootR, path |-> <<"s">>, glob |-> <<"b","*">>]
Q3 == [root |-> RootRS, path |-> <<".">>, glob |-> <<"a","*">>]
Queries == {Q1, Q2, Q3}
\* the directory of Q1 named through the link
QL == [root |-> RootL, path |-> <<".">>, glob |-> <<"*",".","r","s">>]
LinkedQueries == {Q1, QL}

NoFile == <<>>
Content1 == <<1>>
Content2 == <<2, 2>>

\* the directories root.join(path) of the model, and its glob patterns
Dirs == Roots \cup {path_join(q.root, q.path) : q \in Queries \cup LinkedQueries}
Globs == {q.glob : q \in Queries}

\* Path::starts_with and the glob match of a relative path, computed once for
\* the paths of the model
StartsWithMemo == [p \in PathNames, d \in Dirs |-> starts_with_components(p, d)]

path_starts_with(p, base) ==
  IF <<p, base>> \in DOMAIN StartsWithMemo THEN StartsWithMemo[p, base]
  ELSE starts_with_components(p, base)

RelativeMatchMemo ==
  [g \in Globs, p \in PathNames, d \in Dirs |->
     starts_with_components(p, d) /\ glob_is_match(g, strip_prefix(p, d))]

\* glob.is_match(p.strip_prefix(dir)) for a path p under dir
matches_relative(g, p, dir) ==
  IF <<g, p, dir>> \in DOMAIN RelativeMatchMemo THEN RelativeMatchMemo[g, p, dir]
  ELSE glob_is_match(g, strip_prefix(p, dir))

\* the keys of the model's queries, computed once
KeyOf == [q \in Queries \cup LinkedQueries |-> make_subscription_key(q.root, q.path, q.glob)]

SubscriptionKeyOf(e) ==
  IF e \in DOMAIN KeyOf THEN KeyOf[e] ELSE make_subscription_key(e.root, e.path, e.glob)
OtherKey == <<"o","t","h","e","r","-","k","e","y">>
Keys == {KeyOf[q] : q \in Queries} \cup {OtherKey}

\* the client connections
Sessions == {1, 2}

Permutations_of(S) ==
  {p \in [1..Cardinality(S) -> S] : \A x \in S : \E i \in 1..Cardinality(S) : p[i] = x}

(***************************************************************************)
(* hasher.rs                                                               *)
(***************************************************************************)
\* u64::to_le_bytes
RECURSIVE to_le_bytes(_, _)
to_le_bytes(h, n) == IF n = 0 THEN <<>> ELSE <<h % 256>> \o to_le_bytes(h \div 256, n - 1)

RECURSIVE ConcatLeBytes(_)
ConcatLeBytes(hs) ==
  IF hs = <<>> THEN <<>> ELSE to_le_bytes(Head(hs), 8) \o ConcatLeBytes(Tail(hs))

\* the same without hashes.sort()
aggregate_hashes_unsorted(hashes) == xxh3_64(ConcatLeBytes(hashes))

aggregate_hashes(hashes) ==
  xxh3_64(ConcatLeBytes(SortSeq(hashes, LAMBDA a, b : a < b)))

\* hash_file on a readable file
hash_file(contents) == xxh3_64(contents)

\* the files list_files pushes: regular files under root/path whose path
\* relative to root/path matches the glob (the walk order is the walker's)
list_files(fsys, root, path, glob) ==
  LET full_path == path_join(root, path)
  IN  {f \in PathNames : /\ fsys[FileOf[f]] # NoFile
                         /\ path_starts_with(f, full_path)
                         /\ matches_relative(glob, f, full_path)}

(***************************************************************************)
(* hash_service.rs                                                         *)
(***************************************************************************)
\* The loop of hash_with_cache over the enumerated files. failAt is the
\* position of the file whose read fails (0: every read succeeds).
\* the loop with a placeholder cached for the file whose read fails
RECURSIVE HashLoop_caches_failure(_, _, _, _, _, _)
HashLoop_caches_failure(cache, files, i, hashes, fsys, failAt) ==
  IF i > Len(files)
  THEN [ok |-> TRUE, cache |-> cache, hashes |-> hashes]
  ELSE LET file == files[i]
       IN  IF file \in DOMAIN cache
           THEN HashLoop_caches_failure(cache, files, i + 1, Append(hashes, cache[file]),
                                        fsys, failAt)
           ELSE IF failAt = i
                THEN [ok |-> FALSE, cache |-> cache @@ (file :> 0), hashes |-> hashes]
                ELSE LET h == hash_file(fsys[FileOf[file]])
                     IN  HashLoop_caches_failure(cache @@ (file :> h), files, i + 1,
                                                 Append(hashes, h), fsys, failAt)

RECURSIVE HashLoop(_, _, _, _, _, _)
HashLoop(cache, files, i, hashes, fsys, failAt) ==
  IF i > Len(files)
  THEN [ok |-> TRUE, cache |-> cache, hashes |-> hashes]
  ELSE LET file == files[i]
       IN  IF file \in DOMAIN cache
           THEN HashLoop(cache, files, i + 1, Append(hashes, cache[file]), fsys, failAt)
           ELSE IF failAt = i
                THEN [ok |-> FALSE, cache |-> cache, hashes |-> hashes]
                ELSE LET h == hash_file(fsys[FileOf[file]])
                     IN  HashLoop(cache @@ (file :> h), files, i + 1,
                                  Append(hashes, h), fsys, failAt)

\* hash_with_cache that answers an empty enumeration with an empty result
hash_with_cache_empty_ok(cache, files, glob, fsys, failAt) ==
  IF ~glob_is_valid(glob)
  THEN [err |-> "GlobError", cache |-> cache]
  ELSE LET r == HashLoop(cache, files, 1, <<>>, fsys, failAt)
       IN  IF r.ok
           THEN [err |-> "", cache |-> r.cache,
                 result |-> [hash |-> aggregate_hashes(r.hashes), file_count |-> Len(files)]]
           ELSE [err |-> "ReadFile", cache |-> r.cache]

\* hash_with_cache that forgets the hashes it computed when a read fails
hash_with_cache_rollback(cache, files, glob, fsys, failAt) ==
  IF ~glob_is_valid(glob)
  THEN [err |-> "GlobError", cache |-> cache]
  ELSE IF files = <<>>
  THEN [err |-> "NoFilesMatched", cache |-> cache]
  ELSE LET r == HashLoop(cache, files, 1, <<>>, fsys, failAt)
       IN  IF r.ok
           THEN [err |-> "", cache |-> r.cache,
                 result |-> [hash |-> aggregate_hashes(r.hashes), file_count |-> Len(files)]]
           ELSE [err |-> "ReadFile", cache |-> cache]

\* files: the enumeration list_files returned, in the walker's order
hash_with_cache(cache, files, glob, fsys, failAt) ==
  IF ~glob_is_valid(glob)
  THEN [err |-> "GlobError", cache |-> cache]
  ELSE IF files = <<>>
  THEN [err |-> "NoFilesMatched", cache |-> cache]
  ELSE LET r == HashLoop(cache, files, 1, <<>>, fsys, failAt)
       IN  IF r.ok
           THEN [err |-> "", cache |-> r.cache,
                 result |-> [hash |-> aggregate_hashes(r.hashes), file_count |-> Len(files)]]
           ELSE [err |-> "ReadFile", cache |-> r.cache]

(***************************************************************************)
(* daemon.rs: DaemonState is a record                                      *)
(*   file_cache    : FilePath -> u64          (PerFileCache)               *)
(*   result_cache  : GlobKey  -> HashResult   (ResultCache)                *)
(*   root_watchers : the roots that have a watcher in the map (WatcherMap) *)
(* Operations return the new state together with their result; installed   *)
(* says whether an OS watcher was created and put into the map.            *)
(***************************************************************************)
EmptyMap == [x \in {} |-> 0]

DaemonState_new == [file_cache |-> EmptyMap, result_cache |-> EmptyMap, root_watchers |-> {}]

NoResult == [hash |-> 0, file_count |-> 0]

Restrict(f, S) == [x \in S |-> f[x]]

\* invalidate_file that forgets the file's hash and keeps every result
invalidate_file_keeps_results(state, path) ==
  [state EXCEPT !.file_cache = Restrict(@, DOMAIN @ \ {path})]

\* invalidate_file that compares the directory with the path as text: the
\* last component of the directory need only begin the path's component
invalidate_file_text_prefix(state, path) ==
  [state EXCEPT
     !.file_cache = Restrict(@, DOMAIN @ \ {path}),
     !.result_cache =
        Restrict(@, {key \in DOMAIN @ :
                       LET b == Components(path_join(key.root, key.path))
                           p == Components(path)
                           n == Len(b)
                       IN  ~(/\ n <= Len(p)
                             /\ \A i \in 1..(n - 1) : b[i] = p[i]
                             /\ n > 0 => IsPrefixSeq(b[n], p[n]))})]

\* invalidate_file that keeps the results whose glob does not match the path
invalidate_file_matching(state, path) ==
  [state EXCEPT
     !.file_cache = Restrict(@, DOMAIN @ \ {path}),
     !.result_cache =
        Restrict(@, {key \in DOMAIN @ :
                       ~(/\ path_starts_with(path, path_join(key.root, key.path))
                         /\ matches_relative(key.glob, path,
                                             path_join(key.root, key.path)))})]

invalidate_file(state, path) ==
  [state EXCEPT
     !.file_cache = Restrict(@, DOMAIN @ \ {path}),
     !.result_cache =
        Restrict(@, {key \in DOMAIN @ :
                       ~path_starts_with(path, path_join(key.root, key.path))})]

\* start_watching that reports success when the watcher cannot be installed
start_watching_swallow(state, root, event_tx, installOk) ==
  IF root \in state.root_watchers \/ ~event_tx \/ ~installOk
  THEN [err |-> "", state |-> state, installed |-> FALSE]
  ELSE [err |-> "",
        state |-> [state EXCEPT !.root_watchers = @ \cup {root}],
        installed |-> TRUE]

\* start_watching without the contains_key test
start_watching_again(state, root, event_tx, installOk) ==
  IF ~event_tx
  THEN [err |-> "", state |-> state, installed |-> FALSE]
  ELSE IF ~installOk
  THEN [err |-> "Watch", state |-> state, installed |-> FALSE]
  ELSE [err |-> "",
        state |-> [state EXCEPT !.root_watchers = @ \cup {root}],
        installed |-> TRUE]

\* start_watching that installs a watcher also when there is no event sink
start_watching_unsinked(state, root, event_tx, installOk) ==
  IF root \in state.root_watchers
  THEN [err |-> "", state |-> state, installed |-> FALSE]
  ELSE IF ~installOk
  THEN [err |-> "Watch", state |-> state, installed |-> FALSE]
  ELSE [err |-> "",
        state |-> [state EXCEPT !.root_watchers = @ \cup {root}],
        installed |-> TRUE]

\* event_tx: TRUE for Some(sender), FALSE for None; installOk: whether the
\* notify watcher can be created and attached to root
start_watching(state, root, event_tx, installOk) ==
  IF root \in state.root_watchers
  THEN [err |-> "", state |-> state, installed |-> FALSE]
  ELSE IF ~event_tx
  THEN [err |-> "", state |-> state, installed |-> FALSE]
  ELSE IF ~installOk
  THEN [err |-> "Watch", state |-> state, installed |-> FALSE]
  ELSE [err |-> "",
        state |-> [state EXCEPT !.root_watchers = @ \cup {root}],
        installed |-> TRUE]

ensure_watching(state, root, event_tx, installOk) ==
  start_watching(state, root, event_tx, installOk)

stop_watching(state, root) ==
  [state EXCEPT !.root_watchers = @ \ {root}]

\* hash that never consults the result cache
hash_uncached(state, root, path, glob, persistent, event_tx, installOk, fsys, files, failAt) ==
  LET w == IF persistent
           THEN start_watching(state, root, event_tx, installOk)
           ELSE [err |-> "", state |-> state, installed |-> FALSE]
      key == [root |-> root, path |-> path, glob |-> glob]
      r == hash_with_cache(w.state.file_cache, files, glob, fsys, failAt)
  IN  IF w.err # ""
      THEN [err |-> w.err, state |-> w.state, installed |-> FALSE, result |-> NoResult]
      ELSE IF r.err # ""
      THEN [err |-> r.err,
            state |-> [w.state EXCEPT !.file_cache = r.cache],
            installed |-> w.installed, result |-> NoResult]
      ELSE [err |-> "",
            state |-> [w.state EXCEPT !.file_cache = r.cache,
                                      !.result_cache = (key :> r.result) @@ @],
            installed |-> w.installed, result |-> r.result]

\* hash that starts a watcher for the root whether persistent or not
hash_always_watches(state, root, path, glob, persistent, event_tx, installOk, fsys, files, failAt) ==
  LET w == start_watching(state, root, event_tx, installOk)
      key == [root |-> root, path |-> path, glob |-> glob]
  IN  IF w.err # ""
      THEN [err |-> w.err, state |-> w.state, installed |-> FALSE, result |-> NoResult]
      ELSE IF key \in DOMAIN w.state.result_cache
      THEN [err |-> "", state |-> w.state, installed |-> w.installed,
            result |-> w.state.result_cache[key]]
      ELSE LET r == hash_with_cache(w.state.file_cache, files, glob, fsys, failAt)
           IN  IF r.err # ""
               THEN [err |-> r.err,
                     state |-> [w.state EXCEPT !.file_cache = r.cache],
                     installed |-> w.installed, result |-> NoResult]
               ELSE [err |-> "",
                     state |-> [w.state EXCEPT !.file_cache = r.cache,
                                               !.result_cache = (key :> r.result) @@ @],
                     installed |-> w.installed, result |-> r.result]

\* files, failAt: the walker's enumeration and the read that fails, if any
hash(state, root, path, glob, persistent, event_tx, installOk, fsys, files, failAt) ==
  LET w == IF persistent
           THEN start_watching(state, root, event_tx, installOk)
           ELSE [err |-> "", state |-> state, installed |-> FALSE]
      key == [root |-> root, path |-> path, glob |-> glob]
  IN  IF w.err # ""
      THEN [err |-> w.err, state |-> w.state, installed |-> FALSE, result |-> NoResult]
      ELSE IF key \in DOMAIN w.state.result_cache
      THEN [err |-> "", state |-> w.state, installed |-> w.installed,
            result |-> w.state.result_cache[key]]
      ELSE LET r == hash_with_cache(w.state.file_cache, files, glob, fsys, failAt)
           IN  IF r.err # ""
               THEN [err |-> r.err,
                     state |-> [w.state EXCEPT !.file_cache = r.cache],
                     installed |-> w.installed, result |-> NoResult]
               ELSE [err |-> "",
                     state |-> [w.state EXCEPT !.file_cache = r.cache,
                                               !.result_cache = (key :> r.result) @@ @],
                     installed |-> w.installed, result |-> r.result]

\* the nondeterminism of one call of hash: the enumeration order of the
\* walker, the read that fails and the outcome of installing a watcher
Enumerations(fsys, q) == Permutations_of(list_files(fsys, q.root, q.path, q.glob))

\* the walks one call of hash can make: none when the result cache has the key
Walks(state, fsys, q) ==
  IF [root |-> q.root, path |-> q.path, glob |-> q.glob] \in DOMAIN state.result_cache
  THEN {<<>>}
  ELSE Enumerations(fsys, q)

\* the reads of a walk that can fail: those of files the per-file cache lacks
FailChoices(state, files) ==
  {0} \cup {i \in 1..Len(files) : files[i] \notin DOMAIN state.file_cache}

(***************************************************************************)
(* protocol.rs: request lines and their parse                              *)
(***************************************************************************)
\* a request line is a JSON object, given as the function from its field
\* names to their values; NotJson is a line that is no JSON object
NotJson == [raw |-> "garbage"]

HashLine(q, p) ==
  [cmd |-> "hash", root |-> q.root, path |-> q.path, glob |-> q.glob, persistent |-> p]
HashLineDefault(q) ==
  [cmd |-> "hash", root |-> q.root, path |-> q.path, glob |-> q.glob]
WatchLine(q) ==
  [cmd |-> "watch", root |-> q.root, path |-> q.path, glob |-> q.glob]
UnwatchLine(k) == [cmd |-> "unwatch", key |-> k]

WellFormedLines ==
  {HashLine(q, p) : q \in Queries, p \in BOOLEAN} \cup {HashLineDefault(q) : q \in Queries}
  \cup {WatchLine(q) : q \in Queries} \cup {UnwatchLine(k) : k \in Keys}

MalformedLines ==
  { NotJson,
    [cmd |-> "stat", root |-> RootR],
    [cmd |-> "Watch", root |-> Q1.root, path |-> Q1.path, glob |-> Q1.glob],
    [cmd |-> "watch", root |-> Q1.root, path |-> Q1.path],
    [cmd |-> "unwatch"],
    [key |-> OtherKey] }

RequestLines == WellFormedLines \cup MalformedLines

\* a hash request whose glob pattern Glob::new rejects
BadGlobQuery == [root |-> RootR, path |-> <<".">>, glob |-> <<"[">>]
BadGlobLine == HashLine(BadGlobQuery, FALSE)

ParseError == [tag |-> "Err"]

\* a parse that takes the command name in any letter case
parse_request_anycase(line) ==
  LET has(fields) == fields \subseteq DOMAIN line
      cmd == IF line.cmd = "Watch" THEN "watch" ELSE line.cmd
  IN  IF ~has({"cmd"}) THEN ParseError
      ELSE IF cmd = "hash" /\ has({"root", "path", "glob"})
      THEN [tag |-> "Hash", root |-> line.root, path |-> line.path, glob |-> line.glob,
            persistent |-> IF has({"persistent"}) THEN line.persistent ELSE FALSE]
      ELSE IF cmd = "watch" /\ has({"root", "path", "glob"})
      THEN [tag |-> "Watch", root |-> line.root, path |-> line.path, glob |-> line.glob]
      ELSE IF cmd = "unwatch" /\ has({"key"})
      THEN [tag |-> "Unwatch", key |-> line.key]
      ELSE ParseError

\* serde_json::from_str::<Request>: #[serde(tag = "cmd", rename_all = "lowercase")]
parse_request(line) ==
  LET has(fields) == fields \subseteq DOMAIN line
  IN  IF ~has({"cmd"}) THEN ParseError
      ELSE IF line.cmd = "hash" /\ has({"root", "path", "glob"})
      THEN [tag |-> "Hash", root |-> line.root, path |-> line.path, glob |-> line.glob,
            persistent |-> IF has({"persistent"}) THEN line.persistent ELSE FALSE]
      ELSE IF line.cmd = "watch" /\ has({"root", "path", "glob"})
      THEN [tag |-> "Watch", root |-> line.root, path |-> line.path, glob |-> line.glob]
      ELSE IF line.cmd = "unwatch" /\ has({"key"})
      THEN [tag |-> "Unwatch", key |-> line.key]
      ELSE ParseError

\* Response values
ResponseHash(result) ==
  [type |-> "hash", hash |-> HexFormat(result.hash, HASH_HEX_WIDTH),
   file_count |-> result.file_count]
ResponseWatch(key) == [type |-> "key", key |-> key]
ResponseOk == [type |-> "ok", ok |-> TRUE]
ResponseError(e) == [type |-> "error", error |-> e]
SubscriptionEvent(key, paths) == [type |-> "event", key |-> key, paths |-> paths]

(***************************************************************************)
(* persistence.rs                                                          *)
(***************************************************************************)
\* persistence::save: what the state file holds afterwards
save(state, file, saveOk) == IF saveOk THEN state ELSE file

(***************************************************************************)
(* session.rs                                                              *)
(***************************************************************************)
Session_new == {}

\* a session that takes every broadcast
should_receive_event_any(session, key) == TRUE

should_receive_event(session, key) == key \in session

\* an unwatch that leaves the session's set as it is
process_unwatch_keep(session, key) == session

\* an unwatch that drops every subscription of the session
process_unwatch_clear(session, key) == {}

\* Session::process_request, the Unwatch arm: the session's set afterwards
process_unwatch(session, key) == session \ {key}

\* Session::process_request, the Watch arm after backend.watch succeeded
process_watch(session, key) == session \cup {key}

(***************************************************************************)
(* server.rs: helpers                                                      *)
(***************************************************************************)
\* an insert that keeps the new entry only
insert_entry_replace(p, entry) == {entry}

\* HashSet::insert of the WatchEntry
insert_entry(p, entry) == p \cup {entry}

\* a registration that takes back the entry of a key that is registered
register_subscription_toggle(subs, key, request_line) ==
  IF key \in DOMAIN subs THEN Restrict(subs, DOMAIN subs \ {key})
  ELSE LET r == parse_request(request_line)
       IN  (key :> [root |-> r.root, path |-> r.path, glob |-> r.glob]) @@ subs

\* a registration that records nothing
register_subscription_skip(subs, key, request_line) == subs

register_subscription(subs, key, request_line) ==
  LET r == parse_request(request_line)
  IN  IF r.tag = "Watch"
      THEN (key :> [root |-> r.root, path |-> r.path, glob |-> r.glob]) @@ subs
      ELSE subs

\* Path::canonicalize: the absolute name with every link followed and every
\* "." dropped; an error when nothing has that name
canonicalize(fsys, p) ==
  LET target == Resolve(p)
      name == <<"/">> \o JoinComponents(Components(target))
  IN  IF name \in Files
      THEN [ok |-> fsys[name] # NoFile, path |-> name]
      ELSE [ok |-> name \in Dirs, path |-> name]

\* canonicalize() with the fallback of matches_watch: Err(_) => the path as given
canonical_or_given(fsys, p) ==
  LET c == canonicalize(fsys, p) IN IF c.ok THEN c.path ELSE p

matches_watch(fsys, changed, root, path, glob_pattern) ==
  LET watch_dir == canonical_or_given(fsys, path_join(root, path))
      changed_path == canonical_or_given(fsys, changed)
  IN  /\ path_starts_with(changed_path, watch_dir)
      /\ glob_is_valid(glob_pattern)
      /\ matches_relative(glob_pattern, changed_path, watch_dir)

\* a filter that lets modifications pass unnoticed
is_relevant_structural(kind) == kind \in {"Create", "Remove"}

\* the notify kinds the pipeline acts on
is_relevant(kind) == kind \in {"Modify", "Create", "Remove"}

\* mpsc::Sender::try_send from the watcher callback
try_send_evict(q, event) ==
  IF Len(q) < EventChanCap THEN Append(q, event) ELSE Append(Tail(q), event)

try_send(q, event) == IF Len(q) < EventChanCap THEN Append(q, event) ELSE q

\* the recursive watchers that see a change of file f
watchers_of(state, f) == {r \in state.root_watchers : path_starts_with(f, Resolve(r))}

\* broadcast::Sender::send, as seen by one receiver: the oldest item is
\* overwritten when the receiver is a full buffer behind
receiver_push(q, item) ==
  IF Len(q) < BroadcastCap THEN Append(q, item) ELSE Append(Tail(q), item)

receiver_lags(q) == Len(q) >= BroadcastCap

VARIABLES
  fs,               \* the files on disk: FilePath -> contents, NoFile when absent
  nfs,              \* filesystem operations performed so far
  daemon,           \* AppState.daemon
  watcher_installs, \* per root: OS watchers created since the root entered the map
  persisted,        \* AppState.persisted.watch_entries
  dirty,            \* AppState.dirty
  disk,             \* the watch set in the state file
  subscriptions,    \* AppState.subscriptions
  event_q,          \* the mpsc channel event_tx -> event_rx
  pending,          \* the pipeline's debounce map: path -> ms left to its deadline
  ppc,              \* where the pipeline task is
  ready,            \* the batch of the current flush
  todo,             \* the paths of the batch not yet invalidated
  restore_todo,     \* entries restore_watchers has still to restore
  rehash,           \* spawned background re-hash tasks that have not run yet
  fpc,              \* where the flusher task is
  session,          \* per connection: Session.subscriptions
  spc,              \* per connection: where handle_connection is
  req,              \* per connection: the request line being processed
  rx,               \* per connection: the items waiting in change_rx
  lagged,           \* per connection: change_rx has lost items
  out,              \* per connection: the lines written to the socket
  unwatched,        \* per connection: keys unwatched and not watched again since
  returned,         \* per query: what hash last returned, since the last invalidate_file
  nreq,             \* request lines read so far
  hist,             \* history of the run, read by no action's guard
  calc,             \* a part of the program under separate study: a function with
                    \* its arguments and result, or the lock use of the tasks
  budget            \* what the environment may do: read_line results, filesystem
                    \* operations, watch entries in the state file at startup,
                    \* the saves of the state file that may fail

vars == <<fs, nfs, daemon, watcher_installs, persisted, dirty, disk, subscriptions,
          event_q, pending, ppc, ready, todo, restore_todo, rehash, fpc,
          session, spc, req, rx, lagged, out, unwatched, returned, nreq, hist, calc,
          budget>>

fsVars == <<fs, nfs>>
daemonVars == <<daemon, watcher_installs, returned>>
persistVars == <<persisted, dirty, disk>>
pipeVars == <<pending, ppc, ready, todo>>
startVars == <<restore_todo, rehash>>
connVars == <<session, spc, req, rx, lagged, out, unwatched, nreq>>
auxVars == <<hist, calc, budget>>
\* everything but calc
daemonSide == <<fsVars, daemonVars, persistVars, subscriptions, event_q, pipeVars, startVars,
                fpc, connVars, hist, budget>>

NoLine == [raw |-> "none"]

\* nothing has happened yet
\*   added: per connection, the watch entries the request in progress has
\*          put into the persisted watch set
\*   windows: the debounce windows opened so far: a window opens when the
\*          pipeline receives a relevant event with no window open
\*   window_left: ms until the open window has lasted DEBOUNCE_MS
\*   age: per path that is pending or in the batch being flushed, the ms
\*          (up to AgeCap) since the pipeline last received a relevant event
\*          for it
NoHistory ==
  [added |-> [s \in Sessions |-> {}], windows |-> 0, window_left |-> 0,
   invalidated |-> {}, old_files |-> {}, old_results |-> {}, age |-> EmptyMap,
   lost |-> [s \in Sessions |-> FALSE], blind |-> {}]

\* no function is under study
NoCalc == [fn |-> "none"]

InitialFs ==
  (FileA :> Content1) @@ (FileB :> Content1) @@ (FileC :> Content1) @@ (FileN :> NoFile)

\* the state when run() has built AppState: persistence::load() gave any
\* watch set, restore_watchers is about to start, no task is spawned yet
InitState ==
  /\ fs = InitialFs
  /\ nfs = 0
  /\ daemon = DaemonState_new
  /\ watcher_installs = [r \in Roots |-> 0]
  /\ persisted \in {S \in SUBSET budget.entries : Cardinality(S) <= budget.loaded}
  /\ dirty = FALSE
  /\ disk = persisted
  /\ subscriptions = EmptyMap
  /\ event_q = <<>>
  /\ pending = EmptyMap
  /\ ppc = "select"
  /\ ready = <<>>
  /\ todo = <<>>
  /\ restore_todo = persisted
  /\ rehash = {}
  /\ fpc = "idle"
  /\ session = [s \in Sessions |-> Session_new]
  /\ spc = [s \in Sessions |-> "read"]
  /\ req = [s \in Sessions |-> NoLine]
  /\ rx = [s \in Sessions |-> <<>>]
  /\ lagged = [s \in Sessions |-> FALSE]
  /\ out = [s \in Sessions |-> <<>>]
  /\ unwatched = [s \in Sessions |-> {}]
  /\ returned = EmptyMap
  /\ nreq = 0
  /\ hist = NoHistory

\* the bounds of the environment unless a specification sets its own: the
\* state file holds nothing or the one entry Q1, and no save fails
InitDaemon ==
  /\ budget = [reqs |-> MaxReqs, fsops |-> MaxFsOps, loaded |-> MaxLoaded, entries |-> {Q1},
               saves |-> "none"]
  /\ InitState

Init == InitDaemon /\ calc = NoCalc

\* restore_watchers has returned: the pipeline, the flusher and the
\* connections run
Running == restore_todo = {}

\* the effect of a start_watching result on the OS watchers of root
Installs(w, root) ==
  IF w.installed THEN [watcher_installs EXCEPT ![root] = @ + 1] ELSE watcher_installs

\* what hash last returned for each query, after the call with outcome h
Returns(h, q) == IF h.err = "" THEN (q :> h.result) @@ returned ELSE returned

InstallChoices(root) == IF root \in daemon.root_watchers THEN {TRUE} ELSE BOOLEAN

(***************************************************************************)
(* server.rs: restore_watchers and the background re-hash tasks            *)
(***************************************************************************)
\* an iteration that installs the watcher but registers no subscription
RestoreEntry_unregistered(entry) ==
  /\ entry \in restore_todo
  /\ \E installOk \in InstallChoices(entry.root) :
       LET w == ensure_watching(daemon, entry.root, TRUE, installOk)
       IN  /\ daemon' = w.state
           /\ watcher_installs' = Installs(w, entry.root)
           /\ UNCHANGED <<returned, subscriptions>>
           /\ rehash' = IF w.err # "" THEN rehash ELSE rehash \cup {entry}
  /\ restore_todo' = restore_todo \ {entry}
  /\ UNCHANGED <<fsVars, persistVars, event_q, pipeVars, fpc, connVars, auxVars>>

\* one iteration of the loop of restore_watchers
RestoreEntry(entry) ==
  /\ entry \in restore_todo
  /\ \E installOk \in InstallChoices(entry.root) :
       LET w == ensure_watching(daemon, entry.root, TRUE, installOk)
           key == SubscriptionKeyOf(entry)
       IN  /\ daemon' = w.state
           /\ watcher_installs' = Installs(w, entry.root)
           /\ UNCHANGED returned
           /\ IF w.err # ""
              THEN UNCHANGED <<subscriptions, rehash>>
              ELSE /\ subscriptions' =
                        (key :> [root |-> entry.root, path |-> entry.path,
                                 glob |-> entry.glob]) @@ subscriptions
                   /\ rehash' = rehash \cup {entry}
  /\ restore_todo' = restore_todo \ {entry}
  /\ UNCHANGED <<fsVars, persistVars, event_q, pipeVars, fpc, connVars, auxVars>>

\* a spawned background re-hash: hash(persistent = false, event_tx = None)
BackgroundRehash(entry) ==
  /\ entry \in rehash
  /\ \E files \in Walks(daemon, fs, entry) :
       \E failAt \in FailChoices(daemon, files) :
         LET r == hash(daemon, entry.root, entry.path, entry.glob, FALSE, FALSE, TRUE,
                       fs, files, failAt)
         IN  /\ daemon' = r.state
             /\ watcher_installs' = Installs(r, entry.root)
             /\ returned' = Returns(r, entry)
  /\ rehash' = rehash \ {entry}
  /\ UNCHANGED <<fsVars, persistVars, subscriptions, event_q, pipeVars, restore_todo,
                 fpc, connVars, auxVars>>

(***************************************************************************)
(* The filesystem and the watcher callbacks                                *)
(***************************************************************************)
\* every watcher that sees the file sends the event with try_send, naming
\* the file under the root it watches; the callbacks run in any order
RECURSIVE SendAll(_, _)
SendAll(q, events) ==
  IF events = <<>> THEN q ELSE SendAll(try_send(q, Head(events)), Tail(events))

Notify(f, kind) ==
  \E order \in Permutations_of(watchers_of(daemon, f)) :
    event_q' = SendAll(event_q, [i \in 1..Len(order) |->
                                   [kind |-> kind, paths |-> <<NameUnder(order[i], f)>>]])

FsWrite(f) ==
  /\ nfs < budget.fsops
  /\ fs' = [fs EXCEPT ![f] = IF @ = Content1 THEN Content2 ELSE Content1]
  /\ Notify(f, IF fs[f] = NoFile THEN "Create" ELSE "Modify")
  /\ nfs' = nfs + 1
  /\ UNCHANGED <<daemonVars, persistVars, subscriptions, pipeVars, startVars, auxVars, fpc, connVars>>

FsRemove(f) ==
  /\ nfs < budget.fsops
  /\ fs[f] # NoFile
  /\ fs' = [fs EXCEPT ![f] = NoFile]
  /\ Notify(f, "Remove")
  /\ nfs' = nfs + 1
  /\ UNCHANGED <<daemonVars, persistVars, subscriptions, pipeVars, startVars, auxVars, fpc, connVars>>

FsAccess(f) ==
  /\ nfs < budget.fsops
  /\ fs[f] # NoFile
  /\ Notify(f, "Access")
  /\ nfs' = nfs + 1
  /\ UNCHANGED <<fs, daemonVars, persistVars, subscriptions, pipeVars, startVars, auxVars, fpc,
                 connVars>>

(***************************************************************************)
(* server.rs: the event pipeline task                                      *)
(***************************************************************************)
ClockStepMs == READ_TIMEOUT_MS

After(ms) == IF ms > ClockStepMs THEN ms - ClockStepMs ELSE 0
\* ages are counted up to one clock step beyond two debounce periods
AgeCap == 2 * DEBOUNCE_MS + ClockStepMs
Later(ms) == IF ms + ClockStepMs < AgeCap THEN ms + ClockStepMs ELSE AgeCap

\* time passes: every pending deadline comes nearer
Advance ==
  /\ Running
  /\ \E p \in DOMAIN pending : pending[p] > 0
  /\ pending' = [p \in DOMAIN pending |-> After(pending[p])]
  /\ hist' = [hist EXCEPT !.window_left = After(@),
                          !.age = [p \in DOMAIN @ |-> Later(@[p])]]
  /\ UNCHANGED <<fsVars, daemonVars, persistVars, subscriptions, event_q, ppc, ready, todo,
                 startVars, calc, budget, fpc, connVars>>

\* a pipeline that keeps the deadline of a path that is already pending
PipeRecv_first_deadline ==
  /\ Running
  /\ ppc = "select"
  /\ event_q # <<>>
  /\ LET event == Head(event_q)
         paths == {event.paths[i] : i \in 1..Len(event.paths)}
     IN  /\ pending' = IF is_relevant(event.kind)
                       THEN [p \in DOMAIN pending \cup paths |->
                               IF p \in paths /\ p \notin DOMAIN pending THEN DEBOUNCE_MS
                               ELSE pending[p]]
                       ELSE pending
         /\ hist' = IF is_relevant(event.kind)
                    THEN [hist EXCEPT
                            !.windows = IF hist.window_left = 0 THEN @ + 1 ELSE @,
                            !.window_left = IF hist.window_left = 0 THEN DEBOUNCE_MS ELSE @,
                            !.age = [p \in DOMAIN @ \cup paths |->
                                       IF p \in paths THEN 0 ELSE @[p]]]
                    ELSE hist
  /\ event_q' = Tail(event_q)
  /\ UNCHANGED <<fsVars, daemonVars, persistVars, subscriptions, ppc, ready, todo,
                 startVars, calc, budget, fpc, connVars>>

\* Some(event) = event_rx.recv()
PipeRecv ==
  /\ Running
  /\ ppc = "select"
  /\ event_q # <<>>
  /\ LET event == Head(event_q)
         paths == {event.paths[i] : i \in 1..Len(event.paths)}
     IN  /\ pending' = IF is_relevant(event.kind)
                       THEN [p \in DOMAIN pending \cup paths |->
                               IF p \in paths THEN DEBOUNCE_MS ELSE pending[p]]
                       ELSE pending
         /\ hist' = IF is_relevant(event.kind)
                    THEN [hist EXCEPT
                            !.windows = IF hist.window_left = 0 THEN @ + 1 ELSE @,
                            !.window_left = IF hist.window_left = 0 THEN DEBOUNCE_MS ELSE @,
                            !.age = [p \in DOMAIN @ \cup paths |->
                                       IF p \in paths THEN 0 ELSE @[p]]]
                    ELSE hist
  /\ event_q' = Tail(event_q)
  /\ UNCHANGED <<fsVars, daemonVars, persistVars, subscriptions, ppc, ready, todo,
                 startVars, calc, budget, fpc, connVars>>

\* interval.tick() with some deadline passed: collect the paths that are due.
\* The phase of the interval against the events is arbitrary; a tick that
\* finds nothing due changes nothing.
PipeTick ==
  /\ Running
  /\ ppc = "select"
  /\ LET due == {p \in DOMAIN pending : pending[p] = 0}
     IN  /\ due # {}
         /\ \E order \in Permutations_of(due) :
              /\ ready' = order
              /\ todo' = order
  /\ ppc' = "invalidate"
  /\ hist' = [hist EXCEPT !.invalidated = {},
                          !.old_files = DOMAIN daemon.file_cache,
                          !.old_results = DOMAIN daemon.result_cache]
  /\ UNCHANGED <<fsVars, daemonVars, persistVars, subscriptions, event_q, pending,
                 startVars, calc, budget, fpc, connVars>>

\* one iteration of "for path in &ready": under the daemon write lock
PipeInvalidate ==
  /\ ppc = "invalidate"
  /\ LET path == Head(todo)
     IN  /\ pending' = Restrict(pending, DOMAIN pending \ {path})
         /\ daemon' = invalidate_file(daemon, path)
         /\ returned' = EmptyMap
  /\ todo' = Tail(todo)
  /\ ppc' = IF Tail(todo) = <<>> THEN "match" ELSE "invalidate"
  /\ hist' = [hist EXCEPT !.invalidated = @ \cup {Head(todo)},
                          !.old_files = @ \cap DOMAIN daemon'.file_cache,
                          !.old_results = @ \cap DOMAIN daemon'.result_cache]
  /\ UNCHANGED <<fsVars, watcher_installs, persistVars, subscriptions, event_q, ready,
                 startVars, calc, budget, fpc, connVars>>

\* the paths of the batch that match one subscription, in batch order
MatchedPaths(batch, sub) ==
  SelectSeq(batch, LAMBDA c : matches_watch(fs, c, sub.root, sub.path, sub.glob))

\* change_tx.send for each record of the sequence, to every live receiver
RECURSIVE Broadcast(_, _, _)
Broadcast(queues, lags, records) ==
  IF records = <<>> THEN [rx |-> queues, lagged |-> lags]
  ELSE LET item == Head(records)
           live == {s \in Sessions : spc[s] # "closed"}
       IN  Broadcast(
             [s \in Sessions |-> IF s \in live THEN receiver_push(queues[s], item)
                                               ELSE queues[s]],
             [s \in Sessions |-> IF s \in live /\ receiver_lags(queues[s]) THEN TRUE
                                               ELSE lags[s]],
             Tail(records))

\* a pipeline that sends one record for every matching path of the batch
PipeMatch_per_path ==
  /\ ppc = "match"
  /\ LET pairs == {<<k, i>> \in (DOMAIN subscriptions) \X (1..Len(ready)) :
                     matches_watch(fs, ready[i], subscriptions[k].root, subscriptions[k].path,
                                   subscriptions[k].glob)}
     IN  \E order \in Permutations_of(pairs) :
           LET records == [i \in 1..Len(order) |->
                             [key |-> order[i][1], paths |-> <<ready[order[i][2]]>>]]
               b == Broadcast(rx, lagged, records)
           IN  /\ rx' = b.rx
               /\ lagged' = b.lagged
  /\ ready' = <<>>
  /\ ppc' = "select"
  /\ hist' = [hist EXCEPT !.invalidated = {}, !.old_files = {}, !.old_results = {},
                          !.age = Restrict(@, DOMAIN pending),
                          !.lost = [s \in Sessions |-> @[s] \/ lagged'[s]]]
  /\ UNCHANGED <<fsVars, daemonVars, persistVars, subscriptions, event_q, pending,
                 todo, startVars, calc, budget, fpc, session, spc, req, out,
                 unwatched, nreq>>

\* matching under the subscriptions read lock, then the broadcasts
PipeMatch ==
  /\ ppc = "match"
  /\ LET matched == {k \in DOMAIN subscriptions :
                       MatchedPaths(ready, subscriptions[k]) # <<>>}
     IN  \E order \in Permutations_of(matched) :
           LET records == [i \in 1..Len(order) |->
                             [key |-> order[i],
                              paths |-> MatchedPaths(ready, subscriptions[order[i]])]]
               b == Broadcast(rx, lagged, records)
           IN  /\ rx' = b.rx
               /\ lagged' = b.lagged
  /\ ready' = <<>>
  /\ ppc' = "select"
  /\ hist' = [hist EXCEPT !.invalidated = {}, !.old_files = {}, !.old_results = {},
                          !.age = Restrict(@, DOMAIN pending),
                          !.lost = [s \in Sessions |-> @[s] \/ lagged'[s]]]
  /\ UNCHANGED <<fsVars, daemonVars, persistVars, subscriptions, event_q, pending,
                 todo, startVars, calc, budget, fpc, session, spc, req, out,
                 unwatched, nreq>>

(***************************************************************************)
(* server.rs: the periodic flush task                                      *)
(***************************************************************************)
\* a flusher that clears dirty and saves nothing
FlushSwap_forget ==
  /\ Running
  /\ fpc = "idle"
  /\ dirty
  /\ dirty' = FALSE
  /\ UNCHANGED <<fsVars, daemonVars, persisted, disk, subscriptions, event_q, pipeVars,
                 startVars, auxVars, connVars, fpc>>

\* interval.tick() and dirty.swap(false) returning true
FlushSwap ==
  /\ Running
  /\ fpc = "idle"
  /\ dirty
  /\ dirty' = FALSE
  /\ fpc' = "save"
  /\ UNCHANGED <<fsVars, daemonVars, persisted, disk, subscriptions, event_q, pipeVars,
                 startVars, auxVars, connVars>>

\* persistence::save under the persisted read lock
FlushSave ==
  /\ fpc = "save"
  /\ \E saveOk \in (IF budget.saves = "any" THEN BOOLEAN ELSE {TRUE}) :
       disk' = save(persisted, disk, saveOk)
  /\ fpc' = "idle"
  /\ UNCHANGED <<fsVars, daemonVars, persisted, dirty, subscriptions, event_q, pipeVars,
                 startVars, auxVars, connVars>>

(***************************************************************************)
(* server.rs: handle_connection, with Session::process_request and the     *)
(* AppStateBackend calls it awaits. A step of a connection task is one     *)
(* critical section together with the task-local code around it: reading   *)
(* the line before it, writing the response and draining change_rx after.  *)
(***************************************************************************)
Reading(s) == Running /\ spc[s] = "read" /\ nreq < budget.reqs

Parsed(s) == parse_request(req[s])

EntryOf(r) == [root |-> r.root, path |-> r.path, glob |-> r.glob]

\* the inner loop of handle_connection: every item try_recv returns is
\* written when the session has its key; Lagged is skipped
RECURSIVE Drain(_, _, _)
Drain(sess, q, written) ==
  IF q = <<>> THEN written
  ELSE Drain(sess, Tail(q),
             IF should_receive_event(sess, Head(q).key)
             THEN Append(written, SubscriptionEvent(Head(q).key, Head(q).paths))
             ELSE written)

\* a handler that drains change_rx first and writes the response last
WriteAndDrain_events_first(s, response, sess) ==
  /\ out' = [out EXCEPT ![s] = Append(Drain(sess, rx[s], @), response)]
  /\ rx' = [rx EXCEPT ![s] = <<>>]
  /\ lagged' = [lagged EXCEPT ![s] = FALSE]
  /\ req' = [req EXCEPT ![s] = NoLine]
  /\ spc' = [spc EXCEPT ![s] = "read"]

\* the response is written and flushed, then change_rx is drained, then the
\* task is back at read_line
WriteAndDrain(s, response, sess) ==
  /\ out' = [out EXCEPT ![s] = Drain(sess, rx[s], Append(@, response))]
  /\ rx' = [rx EXCEPT ![s] = <<>>]
  /\ lagged' = [lagged EXCEPT ![s] = FALSE]
  /\ req' = [req EXCEPT ![s] = NoLine]
  /\ spc' = [spc EXCEPT ![s] = "read"]

\* a line that does not parse: Response::Error, nothing else
Malformed(s, line) ==
  /\ Reading(s)
  /\ parse_request(line).tag = "Err"
  /\ WriteAndDrain(s, ResponseError("Invalid request"), session[s])
  /\ nreq' = nreq + 1
  /\ UNCHANGED <<fsVars, daemonVars, persistVars, subscriptions, event_q, pipeVars,
                 startVars, auxVars, fpc, session, unwatched>>

\* Request::Unwatch: process_request removes the key from the session's set
Unwatch(s, line) ==
  /\ Reading(s)
  /\ parse_request(line).tag = "Unwatch"
  /\ LET r == parse_request(line)
     IN  /\ session' = [session EXCEPT ![s] = process_unwatch(@, r.key)]
         /\ unwatched' = [unwatched EXCEPT ![s] = @ \cup {r.key}]
         /\ WriteAndDrain(s, ResponseOk, session'[s])
  /\ nreq' = nreq + 1
  /\ UNCHANGED <<fsVars, daemonVars, persistVars, subscriptions, event_q, pipeVars,
                 startVars, auxVars, fpc>>

\* Request::Watch, AppStateBackend::watch first block: ensure_watching under
\* the daemon write lock; on failure the error response
WatchEnsure(s, line) ==
  /\ Reading(s)
  /\ parse_request(line).tag = "Watch"
  /\ LET r == parse_request(line)
     IN  \E installOk \in InstallChoices(r.root) :
           LET w == ensure_watching(daemon, r.root, TRUE, installOk)
           IN  /\ daemon' = w.state
               /\ watcher_installs' = Installs(w, r.root)
               /\ IF w.err # ""
                  THEN WriteAndDrain(s, ResponseError("Failed to start watcher"),
                                     session[s])
                  ELSE /\ req' = [req EXCEPT ![s] = line]
                       /\ spc' = [spc EXCEPT ![s] = "watch_persist"]
                       /\ UNCHANGED <<out, rx, lagged>>
  /\ nreq' = nreq + 1
  /\ UNCHANGED <<fsVars, returned, persistVars, subscriptions, event_q, pipeVars,
                 startVars, auxVars, fpc, session, unwatched>>

\* an insert that inserts nothing
PersistEntry_nothing(entry) == UNCHANGED <<persisted, dirty, disk>>

\* an insert that marks the state dirty only when its own save succeeded
PersistEntry_marked_when_saved(entry) ==
  IF insert_entry(persisted, entry) # persisted
  THEN /\ persisted' = insert_entry(persisted, entry)
       /\ \E saveOk \in BOOLEAN :
            /\ disk' = save(persisted', disk, saveOk)
            /\ dirty' = (dirty \/ saveOk)
  ELSE UNCHANGED <<persisted, dirty, disk>>

\* an insert that does not mark the state dirty
PersistEntry_unmarked(entry) ==
  IF insert_entry(persisted, entry) # persisted
  THEN /\ persisted' = insert_entry(persisted, entry)
       /\ UNCHANGED dirty
       /\ \E saveOk \in BOOLEAN : disk' = save(persisted', disk, saveOk)
  ELSE UNCHANGED <<persisted, dirty, disk>>

\* insert the WatchEntry under the persisted write lock; save when it is new
PersistEntry(entry) ==
  IF insert_entry(persisted, entry) # persisted
  THEN /\ persisted' = insert_entry(persisted, entry)
       /\ dirty' = TRUE
       /\ \E saveOk \in (IF budget.saves = "none" THEN {TRUE} ELSE BOOLEAN) :
            disk' = save(persisted', disk, saveOk)
  ELSE UNCHANGED <<persisted, dirty, disk>>

\* AppStateBackend::watch, second block; back in process_request the key
\* enters the session's set
WatchPersist(s) ==
  /\ spc[s] = "watch_persist"
  /\ PersistEntry(EntryOf(Parsed(s)))
  /\ LET key == SubscriptionKeyOf(EntryOf(Parsed(s)))
     IN  /\ session' = [session EXCEPT ![s] = process_watch(@, key)]
         /\ unwatched' = [unwatched EXCEPT ![s] = @ \ {key}]
  /\ spc' = [spc EXCEPT ![s] = "watch_register"]
  /\ UNCHANGED <<fsVars, daemonVars, subscriptions, event_q, pipeVars, startVars, auxVars, fpc,
                 req, rx, lagged, out, nreq>>

\* RequestResult::Subscribe: register_subscription under the subscriptions
\* write lock, then the {key} response
WatchRegister(s) ==
  /\ spc[s] = "watch_register"
  /\ LET key == SubscriptionKeyOf(EntryOf(Parsed(s)))
     IN  /\ subscriptions' = register_subscription(subscriptions, key, req[s])
         /\ WriteAndDrain(s, ResponseWatch(key), session[s])
  /\ UNCHANGED <<fsVars, daemonVars, persistVars, event_q, pipeVars, startVars, auxVars, fpc,
                 session, unwatched, nreq>>

\* Request::Hash with persistent, AppStateBackend::hash: the persisted block
HashPersist(s, line) ==
  /\ Reading(s)
  /\ parse_request(line).tag = "Hash"
  /\ parse_request(line).persistent
  /\ PersistEntry(EntryOf(parse_request(line)))
  /\ hist' = [hist EXCEPT !.added[s] = persisted' \ persisted]
  /\ req' = [req EXCEPT ![s] = line]
  /\ spc' = [spc EXCEPT ![s] = "hash_daemon"]
  /\ nreq' = nreq + 1
  /\ UNCHANGED <<fsVars, daemonVars, subscriptions, event_q, pipeVars, startVars, calc, budget,
                 fpc,
                 session, rx, lagged, out, unwatched>>

\* the response to a hash request
HashResponse(h) == IF h.err = "" THEN ResponseHash(h.result) ELSE ResponseError(h.err)

\* daemon::hash under the daemon write lock, then the response
DaemonHash(s, r) ==
  \E installOk \in (IF r.persistent THEN InstallChoices(r.root) ELSE {TRUE}) :
    \E files \in Walks(daemon, fs, r) :
      \E failAt \in FailChoices(daemon, files) :
        LET h == hash(daemon, r.root, r.path, r.glob, r.persistent, TRUE,
                      installOk, fs, files, failAt)
        IN  /\ daemon' = h.state
            /\ watcher_installs' = Installs(h, r.root)
            /\ returned' = Returns(h, EntryOf(r))
            /\ WriteAndDrain(s, HashResponse(h), session[s])

\* AppStateBackend::hash after the persisted block
HashPersistent(s) ==
  /\ spc[s] = "hash_daemon"
  /\ DaemonHash(s, Parsed(s))
  /\ hist' = [hist EXCEPT !.added[s] = {}]
  /\ UNCHANGED <<fsVars, persistVars, subscriptions, event_q, pipeVars, startVars, calc, budget,
                 fpc,
                 session, unwatched, nreq>>

\* Request::Hash without persistent
\* the roots without a watcher under which this step cached a file hash or
\* a result
CachedUnwatched ==
  {r \in Roots :
     /\ r \notin daemon'.root_watchers
     /\ \/ \E f \in DOMAIN daemon'.file_cache \ DOMAIN daemon.file_cache :
             path_starts_with(f, r)
        \/ \E key \in DOMAIN daemon'.result_cache \ DOMAIN daemon.result_cache :
             starts_with_components(path_join(key.root, key.path), r)}

HashTransient(s, line) ==
  /\ Reading(s)
  /\ parse_request(line).tag = "Hash"
  /\ ~parse_request(line).persistent
  /\ DaemonHash(s, parse_request(line))
  /\ nreq' = nreq + 1
  /\ hist' = [hist EXCEPT !.blind = @ \cup CachedUnwatched]
  /\ UNCHANGED <<fsVars, persistVars, subscriptions, event_q, pipeVars, startVars, calc, budget,
                 fpc, session, unwatched>>

\* the 50 ms read timeout passed with no request: drain change_rx
\* a drain that takes a lagged receiver for a closed channel and returns
TimeoutDrain_lag_closes(s) ==
  /\ Running
  /\ spc[s] = "read"
  /\ rx[s] # <<>> \/ lagged[s]
  /\ IF lagged[s]
     THEN /\ spc' = [spc EXCEPT ![s] = "closed"]
          /\ session' = [session EXCEPT ![s] = Session_new]
          /\ unwatched' = [unwatched EXCEPT ![s] = {}]
          /\ UNCHANGED out
     ELSE /\ out' = [out EXCEPT ![s] = Drain(session[s], rx[s], @)]
          /\ UNCHANGED <<spc, session, unwatched>>
  /\ rx' = [rx EXCEPT ![s] = <<>>]
  /\ lagged' = [lagged EXCEPT ![s] = FALSE]
  /\ UNCHANGED <<fsVars, daemonVars, persistVars, subscriptions, event_q, pipeVars,
                 startVars, auxVars, fpc, req, nreq>>

TimeoutDrain(s) ==
  /\ Running
  /\ spc[s] = "read"
  /\ rx[s] # <<>> \/ lagged[s]
  /\ out' = [out EXCEPT ![s] = Drain(session[s], rx[s], @)]
  /\ rx' = [rx EXCEPT ![s] = <<>>]
  /\ lagged' = [lagged EXCEPT ![s] = FALSE]
  /\ UNCHANGED <<fsVars, daemonVars, persistVars, subscriptions, event_q, pipeVars,
                 startVars, auxVars, fpc, session, spc, req, unwatched, nreq>>

\* a disconnect that also takes the session's keys out of the subscriptions
CloseConnection_unsubscribes(s) ==
  /\ Reading(s)
  /\ nreq' = nreq + 1
  /\ spc' = [spc EXCEPT ![s] = "closed"]
  /\ session' = [session EXCEPT ![s] = Session_new]
  /\ subscriptions' = Restrict(subscriptions, DOMAIN subscriptions \ session[s])
  /\ rx' = [rx EXCEPT ![s] = <<>>]
  /\ lagged' = [lagged EXCEPT ![s] = FALSE]
  /\ unwatched' = [unwatched EXCEPT ![s] = {}]
  /\ UNCHANGED <<fsVars, daemonVars, persistVars, event_q, pipeVars,
                 startVars, auxVars, fpc, req, out>>

\* read_line returned 0: the connection ends, the session and its receiver
\* are dropped
CloseConnection(s) ==
  /\ Reading(s)
  /\ nreq' = nreq + 1
  /\ spc' = [spc EXCEPT ![s] = "closed"]
  /\ session' = [session EXCEPT ![s] = Session_new]
  /\ rx' = [rx EXCEPT ![s] = <<>>]
  /\ lagged' = [lagged EXCEPT ![s] = FALSE]
  /\ unwatched' = [unwatched EXCEPT ![s] = {}]
  /\ UNCHANGED <<fsVars, daemonVars, persistVars, subscriptions, event_q, pipeVars,
                 startVars, auxVars, fpc, req, out>>

(***************************************************************************)
(* The whole daemon.                                                       *)
(***************************************************************************)
Next ==
  \/ \E e \in Queries : RestoreEntry(e)
  \/ \E e \in Queries : BackgroundRehash(e)
  \/ \E f \in Files : FsWrite(f)
  \/ \E f \in Files : FsRemove(f)
  \/ \E f \in Files : FsAccess(f)
  \/ Advance
  \/ PipeRecv
  \/ PipeTick
  \/ PipeInvalidate
  \/ PipeMatch
  \/ FlushSwap
  \/ FlushSave
  \/ \E s \in Sessions, line \in RequestLines : Malformed(s, line)
  \/ \E s \in Sessions, line \in RequestLines : Unwatch(s, line)
  \/ \E s \in Sessions, line \in RequestLines : WatchEnsure(s, line)
  \/ \E s \in Sessions : WatchPersist(s)
  \/ \E s \in Sessions : WatchRegister(s)
  \/ \E s \in Sessions, line \in RequestLines : HashPersist(s, line)
  \/ \E s \in Sessions : HashPersistent(s)
  \/ \E s \in Sessions, line \in RequestLines : HashTransient(s, line)
  \/ \E s \in Sessions : TimeoutDrain(s)
  \/ \E s \in Sessions : CloseConnection(s)

Spec == Init /\ [][Next]_vars

(***************************************************************************)
(* The daemon on a quiet filesystem: startup restore and the requests of   *)
(* the connections, with no filesystem event and no flush tick.            *)
(***************************************************************************)
NextRequests ==
  \/ \E e \in Queries : RestoreEntry(e)
  \/ \E e \in Queries : BackgroundRehash(e)
  \/ \E s \in Sessions, line \in RequestLines : Malformed(s, line)
  \/ \E s \in Sessions, line \in RequestLines : Unwatch(s, line)
  \/ \E s \in Sessions, line \in RequestLines : WatchEnsure(s, line)
  \/ \E s \in Sessions : WatchPersist(s)
  \/ \E s \in Sessions : WatchRegister(s)
  \/ \E s \in Sessions, line \in RequestLines : HashPersist(s, line)
  \/ \E s \in Sessions : HashPersistent(s)
  \/ \E s \in Sessions, line \in RequestLines : HashTransient(s, line)
  \/ \E s \in Sessions : CloseConnection(s)

SpecRequests == Init /\ [][NextRequests]_vars

(***************************************************************************)
(* The subscription fabric: startup restore, the filesystem, the event     *)
(* pipeline and connections that watch, unwatch and receive events.        *)
(***************************************************************************)
NextEvents ==
  \/ \E e \in Queries : RestoreEntry(e)
  \/ \E f \in Files : FsWrite(f)
  \/ \E f \in Files : FsRemove(f)
  \/ \E f \in Files : FsAccess(f)
  \/ Advance
  \/ PipeRecv
  \/ PipeTick
  \/ PipeInvalidate
  \/ PipeMatch
  \/ \E s \in Sessions, line \in RequestLines : Unwatch(s, line)
  \/ \E s \in Sessions, line \in RequestLines : WatchEnsure(s, line)
  \/ \E s \in Sessions : WatchPersist(s)
  \/ \E s \in Sessions : WatchRegister(s)
  \/ \E s \in Sessions : TimeoutDrain(s)
  \/ \E s \in Sessions : CloseConnection(s)

SpecEvents == Init /\ [][NextEvents]_vars

(***************************************************************************)
(* The caches: startup restore, the filesystem, the event pipeline and     *)
(* connections that hash.                                                  *)
(***************************************************************************)
NextCache ==
  \/ \E e \in Queries : RestoreEntry(e)
  \/ \E f \in Files : FsWrite(f)
  \/ \E f \in Files : FsRemove(f)
  \/ \E f \in Files : FsAccess(f)
  \/ Advance
  \/ PipeRecv
  \/ PipeTick
  \/ PipeInvalidate
  \/ PipeMatch
  \/ \E s \in Sessions, line \in RequestLines : HashPersist(s, line)
  \/ \E s \in Sessions : HashPersistent(s)
  \/ \E s \in Sessions, line \in RequestLines : HashTransient(s, line)

SpecCache == Init /\ [][NextCache]_vars

(***************************************************************************)
(* Sessions: startup restore and connections that watch, unwatch and end,  *)
(* with one more request than in the specifications above.                 *)
(***************************************************************************)
InitSessions ==
  /\ budget = [reqs |-> MaxSessionReqs, fsops |-> 0, loaded |-> MaxLoaded, entries |-> {Q1},
               saves |-> "none"]
  /\ InitState
  /\ calc = NoCalc

NextSessions ==
  \/ \E e \in Queries : RestoreEntry(e)
  \/ \E s \in Sessions, line \in RequestLines : Unwatch(s, line)
  \/ \E s \in Sessions, line \in RequestLines : WatchEnsure(s, line)
  \/ \E s \in Sessions : WatchPersist(s)
  \/ \E s \in Sessions : WatchRegister(s)
  \/ \E s \in Sessions : CloseConnection(s)

SpecSessions == InitSessions /\ [][NextSessions]_vars

(***************************************************************************)
(* Debouncing: startup restore of up to MaxRestored entries, a burst of    *)
(* MaxBurst filesystem operations and the event pipeline. No connection    *)
(* reads its receiver, so the receivers keep what was broadcast.           *)
(***************************************************************************)
InitDebounce ==
  /\ budget = [reqs |-> 0, fsops |-> MaxBurst, loaded |-> MaxRestored, entries |-> Queries,
               saves |-> "any"]
  /\ InitState
  /\ calc = NoCalc

NextDebounce ==
  \/ \E e \in Queries : RestoreEntry(e)
  \/ \E f \in Files : FsWrite(f)
  \/ \E f \in Files : FsRemove(f)
  \/ Advance
  \/ PipeRecv
  \/ PipeTick
  \/ PipeInvalidate
  \/ PipeMatch

SpecDebounce == InitDebounce /\ [][NextDebounce]_vars

(***************************************************************************)
(* Hashing on a filesystem that changes: startup restore, the background   *)
(* re-hashes, file writes and removals, and connections that hash, also    *)
(* with a glob pattern that does not compile. The pipeline does not run,   *)
(* so no cache entry is invalidated.                                       *)
(***************************************************************************)
HashingLines == {HashLine(q, p) : q \in Queries, p \in BOOLEAN} \cup {BadGlobLine}

NextHashing ==
  \/ \E e \in Queries : RestoreEntry(e)
  \/ \E e \in Queries : BackgroundRehash(e)
  \/ \E f \in Files : FsWrite(f)
  \/ \E f \in Files : FsRemove(f)
  \/ \E s \in Sessions, line \in HashingLines : HashPersist(s, line)
  \/ \E s \in Sessions : HashPersistent(s)
  \/ \E s \in Sessions, line \in HashingLines : HashTransient(s, line)

SpecHashing == Init /\ [][NextHashing]_vars

(***************************************************************************)
(* protocol.rs: make_subscription_key applied to two tuples. The fields    *)
(* are strings a request can carry, one of them with U+0000 inside.        *)
(***************************************************************************)
KeyFields == {<<"a">>, <<"a", "a">>, <<"a", "nul", "a">>}

KeyTuples == [root : KeyFields, path : KeyFields, glob : KeyFields]

\* the daemon with an empty watch set, before any task has run
InitIdle == InitDaemon /\ persisted = {}

InitKeys ==
  /\ InitIdle
  /\ calc \in [fn : {"key_args"}, a : KeyTuples, b : KeyTuples]

ComputeKeys ==
  /\ calc.fn = "key_args"
  /\ calc' = [fn |-> "make_subscription_key", a |-> calc.a, b |-> calc.b,
               input_a |-> key_input(calc.a.root, calc.a.path, calc.a.glob),
               input_b |-> key_input(calc.b.root, calc.b.path, calc.b.glob),
               key_a |-> make_subscription_key(calc.a.root, calc.a.path, calc.a.glob),
               key_b |-> make_subscription_key(calc.b.root, calc.b.path, calc.b.glob)]
  /\ UNCHANGED daemonSide

NextKeys == ComputeKeys

SpecKeys == InitKeys /\ [][NextKeys]_vars

(***************************************************************************)
(* hasher.rs and hash_service.rs: aggregate_hashes applied to a vector of  *)
(* file hashes and to a rearrangement of it, and hash_with_cache applied   *)
(* to two enumerations of the files of one query.                          *)
(***************************************************************************)
HashValues == {1, 2, 256, 513}

HashVectors == UNION {[1..n -> HashValues] : n \in 0..MaxHashes}

Rearrangements(v) ==
  {[i \in 1..Len(v) |-> v[order[i]]] : order \in Permutations_of(1..Len(v))}

\* a filesystem whose files differ in contents
WalkFs == [InitialFs EXCEPT ![FileB] = Content2]

InitAggregate ==
  /\ InitIdle
  /\ calc \in {[fn |-> "aggregate_args", hashes |-> v, shuffled |-> w] :
                  v \in HashVectors, w \in UNION {Rearrangements(u) : u \in HashVectors}}
  /\ calc.shuffled \in Rearrangements(calc.hashes)

ComputeAggregate ==
  /\ calc.fn = "aggregate_args"
  /\ calc' = [fn |-> "aggregate_hashes", hashes |-> calc.hashes,
               shuffled |-> calc.shuffled,
               hash_a |-> aggregate_hashes(calc.hashes),
               hash_b |-> aggregate_hashes(calc.shuffled)]
  /\ UNCHANGED daemonSide

\* the same query walked in two orders, each on an empty per-file cache
ComputeQueryHash ==
  /\ calc.fn = "aggregate_hashes"
  /\ \E q \in Queries :
       \E files \in Enumerations(WalkFs, q), walked \in Enumerations(WalkFs, q) :
         calc' = [fn |-> "hash_with_cache", files |-> files, walked |-> walked,
                  result_a |-> hash_with_cache(EmptyMap, files, q.glob, WalkFs, 0),
                  result_b |-> hash_with_cache(EmptyMap, walked, q.glob, WalkFs, 0)]
  /\ UNCHANGED daemonSide

NextAggregate ==
  \/ ComputeAggregate
  \/ ComputeQueryHash

SpecAggregate == InitAggregate /\ [][NextAggregate]_vars

(***************************************************************************)
(* The daemon restored from a state file that names one directory twice,   *)
(* once through the link, with the filesystem changing under it.           *)
(***************************************************************************)
InitLinked ==
  /\ budget = [reqs |-> 0, fsops |-> MaxFsOps, loaded |-> MaxRestored,
               entries |-> LinkedQueries,
               saves |-> "any"]
  /\ InitState
  /\ calc = NoCalc

NextLinked ==
  \/ \E e \in LinkedQueries : RestoreEntry(e)
  \/ \E e \in LinkedQueries : BackgroundRehash(e)
  \/ \E f \in Files : FsWrite(f)
  \/ \E f \in Files : FsRemove(f)
  \/ Advance
  \/ PipeRecv
  \/ PipeTick
  \/ PipeInvalidate
  \/ PipeMatch

SpecLinked == InitLinked /\ [][NextLinked]_vars

(***************************************************************************)
(* Persistence: the requests that insert watch entries, with the periodic  *)
(* flush task running beside them.                                         *)
(***************************************************************************)
PersistingLines ==
  {WatchLine(q) : q \in Queries} \cup {HashLine(q, p) : q \in Queries, p \in BOOLEAN}

NextPersistence ==
  \/ \E e \in Queries : RestoreEntry(e)
  \/ FlushSwap
  \/ FlushSave
  \/ \E s \in Sessions, line \in PersistingLines : WatchEnsure(s, line)
  \/ \E s \in Sessions : WatchPersist(s)
  \/ \E s \in Sessions : WatchRegister(s)
  \/ \E s \in Sessions, line \in PersistingLines : HashPersist(s, line)
  \/ \E s \in Sessions : HashPersistent(s)
  \/ \E s \in Sessions, line \in PersistingLines : HashTransient(s, line)

\* here every save of the state file may fail
InitPersistence ==
  /\ budget = [reqs |-> MaxReqs, fsops |-> MaxFsOps, loaded |-> MaxLoaded, entries |-> {Q1},
               saves |-> "any"]
  /\ InitState
  /\ calc = NoCalc

SpecPersistence == InitPersistence /\ [][NextPersistence]_vars

\* the same when only the saves made by the requests can fail
InitFlushing ==
  /\ budget = [reqs |-> MaxReqs, fsops |-> 0, loaded |-> MaxLoaded, entries |-> {Q1},
               saves |-> "of requests"]
  /\ InitState
  /\ calc = NoCalc

SpecFlushing == InitFlushing /\ [][NextPersistence]_vars

(***************************************************************************)
(* The use of the three shared locks (AppState.daemon, .persisted and      *)
(* .subscriptions, tokio RwLocks) by the tasks. The run of a task is the   *)
(* sequence of its lock acquisitions, guard drops and socket writes, in    *)
(* the order of the code; what is done under a lock is left out here.      *)
(***************************************************************************)
Acquire(lock, mode) == [op |-> "acquire", lock |-> lock, mode |-> mode]
\* the guard goes out of scope
Drop(lock) == [op |-> "drop", lock |-> lock, mode |-> "none"]
\* writer.write_all / flush on the connection's socket
SocketWrite == [op |-> "socket", lock |-> "none", mode |-> "none"]
\* change_tx.send
BroadcastSend == [op |-> "send", lock |-> "none", mode |-> "none"]

\* a hash handler that still holds the persisted guard when it locks the daemon
hash_locks_nested(persistent) ==
  (IF persistent THEN <<Acquire("persisted", "write")>> ELSE <<>>)
  \o <<Acquire("daemon", "write"), Drop("daemon")>>
  \o (IF persistent THEN <<Drop("persisted")>> ELSE <<>>)
  \o <<SocketWrite>>

\* a hash handler that takes its second lock under the first, in an order
\* that depends on the request
hash_locks_crossed(persistent) ==
  (IF persistent
   THEN <<Acquire("persisted", "write"), Acquire("daemon", "write")>>
   ELSE <<Acquire("daemon", "write"), Acquire("persisted", "write")>>)
  \o <<Drop("daemon"), Drop("persisted"), SocketWrite>>

\* AppStateBackend::hash, then the response written by handle_connection
hash_locks(persistent) ==
  (IF persistent THEN <<Acquire("persisted", "write"), Drop("persisted")>> ELSE <<>>)
  \o <<Acquire("daemon", "write"), Drop("daemon"), SocketWrite>>

LockTasks == {"connection 1", "connection 2", "pipeline", "flusher", "restore", "rehash"}

\* the runs a task can make
LockRuns(t) ==
  IF t \in {"connection 1", "connection 2"}
  THEN { hash_locks(TRUE), hash_locks(FALSE),
         \* watch: ensure_watching failed
         <<Acquire("daemon", "write"), Drop("daemon"), SocketWrite>>,
         \* watch: ensure_watching, persisted insert, register_subscription
         <<Acquire("daemon", "write"), Drop("daemon"),
           Acquire("persisted", "write"), Drop("persisted"),
           Acquire("subscriptions", "write"), Drop("subscriptions"), SocketWrite>>,
         \* unwatch, or a line that does not parse
         <<SocketWrite>>,
         \* the drain of change_rx: an event is written
         <<SocketWrite, SocketWrite>> }
  ELSE IF t = "pipeline"
  THEN \* a flush of one or of two paths
       { <<Acquire("daemon", "write"), Drop("daemon"),
           Acquire("subscriptions", "read"), BroadcastSend, Drop("subscriptions")>>,
         <<Acquire("daemon", "write"), Drop("daemon"),
           Acquire("daemon", "write"), Drop("daemon"),
           Acquire("subscriptions", "read"), BroadcastSend, Drop("subscriptions")>> }
  ELSE IF t = "flusher"
  THEN { <<Acquire("persisted", "read"), Drop("persisted")>> }
  ELSE IF t = "restore"
  THEN \* one entry restored, or its watcher failed
       { <<Acquire("persisted", "read"), Drop("persisted"),
           Acquire("daemon", "write"), Drop("daemon"),
           Acquire("subscriptions", "write"), Drop("subscriptions")>>,
         <<Acquire("persisted", "read"), Drop("persisted"),
           Acquire("daemon", "write"), Drop("daemon")>> }
  ELSE { <<Acquire("daemon", "write"), Drop("daemon")>> }

\* RwLock: a writer needs the lock free, a reader needs it free of writers
Grantable(held, t, ins) ==
  \A u \in LockTasks \ {t} : \A h \in held[u] :
    h.lock = ins.lock => (h.mode = "read" /\ ins.mode = "read")

InitLocking ==
  /\ InitIdle
  /\ calc = [fn |-> "locks", run |-> [t \in LockTasks |-> <<>>], at |-> [t \in LockTasks |-> 1],
             held |-> [t \in LockTasks |-> {}], runs |-> 0]

\* a task starts a run
TaskStart(t) ==
  /\ calc.at[t] > Len(calc.run[t])
  /\ calc.runs < MaxRuns
  /\ \E r \in LockRuns(t) :
       calc' = [calc EXCEPT !.run[t] = r, !.at[t] = 1, !.runs = @ + 1]
  /\ UNCHANGED daemonSide

\* a task executes the next step of its run; an acquire waits for the lock
TaskStep(t) ==
  /\ calc.at[t] <= Len(calc.run[t])
  /\ LET ins == calc.run[t][calc.at[t]]
     IN  /\ ins.op = "acquire" => Grantable(calc.held, t, ins)
         /\ calc' = [calc EXCEPT
                       !.at[t] = @ + 1,
                       !.held[t] = IF ins.op = "acquire"
                                   THEN @ \cup {[lock |-> ins.lock, mode |-> ins.mode]}
                                   ELSE IF ins.op = "drop"
                                   THEN {h \in @ : h.lock # ins.lock}
                                   ELSE @]
  /\ UNCHANGED daemonSide

NextLocking ==
  \/ \E t \in LockTasks : TaskStart(t)
  \/ \E t \in LockTasks : TaskStep(t)

SpecLocking == InitLocking /\ [][NextLocking]_vars

\* the same under the scheduling of the runtime: a task that can go on is
\* polled. (A tokio RwLock also serves its waiters in the order they came;
\* that stronger fairness is not assumed here.)
SpecLockingFair ==
  SpecLocking /\ \A t \in LockTasks : WF_vars(TaskStep(t))

(***************************************************************************)
(* The event pipeline with the clock of its interval: the interval ticks   *)
(* every DEBOUNCE_MS, a flush takes no time, and the pipeline task, the    *)
(* clock and the receipt of queued events are scheduled fairly.            *)
(***************************************************************************)
InitInterval ==
  /\ budget = [reqs |-> 0, fsops |-> MaxBurst, loaded |-> MaxRestored, entries |-> {Q1, Q2},
               saves |-> "any"]
  /\ InitState
  /\ calc = [fn |-> "interval", tick_left |-> 0]

\* time passes while the pipeline waits in select!, up to the next tick
ClockAdvance ==
  /\ Running
  /\ ppc = "select"
  /\ calc.tick_left > 0
  /\ calc' = [calc EXCEPT !.tick_left = After(@)]
  /\ pending' = [p \in DOMAIN pending |-> After(pending[p])]
  /\ hist' = [hist EXCEPT !.window_left = After(@),
                          !.age = [p \in DOMAIN @ |-> Later(@[p])]]
  /\ UNCHANGED <<fsVars, daemonVars, persistVars, subscriptions, event_q, ppc, ready, todo,
                 startVars, budget, fpc, connVars>>

\* an interval that ticks every second debounce period
IntervalTick_slow ==
  /\ Running
  /\ ppc = "select"
  /\ calc.tick_left = 0
  /\ calc' = [calc EXCEPT !.tick_left = 2 * DEBOUNCE_MS]
  /\ LET due == {p \in DOMAIN pending : pending[p] = 0}
     IN  IF due = {}
         THEN UNCHANGED <<ready, todo, ppc, hist>>
         ELSE /\ \E order \in Permutations_of(due) :
                   /\ ready' = order
                   /\ todo' = order
              /\ ppc' = "invalidate"
              /\ hist' = [hist EXCEPT !.invalidated = {},
                                      !.old_files = DOMAIN daemon.file_cache,
                                      !.old_results = DOMAIN daemon.result_cache]
  /\ UNCHANGED <<fsVars, daemonVars, persistVars, subscriptions, event_q, pending,
                 startVars, budget, fpc, connVars>>

\* interval.tick(): the paths whose deadline has passed become the batch;
\* the next tick is DEBOUNCE_MS later
IntervalTick ==
  /\ Running
  /\ ppc = "select"
  /\ calc.tick_left = 0
  /\ calc' = [calc EXCEPT !.tick_left = DEBOUNCE_MS]
  /\ LET due == {p \in DOMAIN pending : pending[p] = 0}
     IN  IF due = {}
         THEN UNCHANGED <<ready, todo, ppc, hist>>
         ELSE /\ \E order \in Permutations_of(due) :
                   /\ ready' = order
                   /\ todo' = order
              /\ ppc' = "invalidate"
              /\ hist' = [hist EXCEPT !.invalidated = {},
                                      !.old_files = DOMAIN daemon.file_cache,
                                      !.old_results = DOMAIN daemon.result_cache]
  /\ UNCHANGED <<fsVars, daemonVars, persistVars, subscriptions, event_q, pending,
                 startVars, budget, fpc, connVars>>

NextInterval ==
  \/ \E e \in Queries : RestoreEntry(e)
  \/ \E f \in Files : FsWrite(f)
  \/ \E f \in Files : FsRemove(f)
  \/ \E f \in Files : FsAccess(f)
  \/ ClockAdvance
  \/ PipeRecv
  \/ IntervalTick
  \/ PipeInvalidate
  \/ PipeMatch

SpecInterval ==
  /\ InitInterval
  /\ [][NextInterval]_vars
  /\ WF_vars(ClockAdvance)
  /\ WF_vars(PipeRecv)
  /\ WF_vars(IntervalTick)
  /\ WF_vars(PipeInvalidate)
  /\ WF_vars(PipeMatch)

\* ---- the event channel under more events than it holds ----

\* one more filesystem operation than the channel has room for, under the
\* interval clock of the pipeline, with one entry less restored
InitOverflow ==
  /\ budget = [reqs |-> 0, fsops |-> EventChanCap + 1, loaded |-> MaxRestored - 1,
               entries |-> {Q1, Q2}, saves |-> "any"]
  /\ InitState
  /\ calc = [fn |-> "interval", tick_left |-> 0]

SpecOverflow ==
  /\ InitOverflow /\ [][NextInterval]_vars
  /\ WF_vars(\E e \in Queries : RestoreEntry(e))
  /\ WF_vars(ClockAdvance) /\ WF_vars(PipeRecv) /\ WF_vars(IntervalTick)
  /\ WF_vars(PipeInvalidate) /\ WF_vars(PipeMatch)

\* ---- a receiver that falls behind the broadcasts ----

\* restored subscriptions, one request, and a burst of filesystem operations
\* whose records exceed what a receiver holds
InitLagging ==
  /\ budget = [reqs |-> 1, fsops |-> MaxBurst, loaded |-> MaxRestored,
               entries |-> {Q1, Q2}, saves |-> "none"]
  /\ InitState
  /\ calc = NoCalc

NextLagging ==
  \/ \E e \in Queries : RestoreEntry(e)
  \/ \E f \in Files : FsWrite(f)
  \/ Advance
  \/ PipeRecv
  \/ PipeTick
  \/ PipeInvalidate
  \/ PipeMatch
  \/ \E s \in Sessions, line \in RequestLines : WatchEnsure(s, line)
  \/ \E s \in Sessions : WatchPersist(s)
  \/ \E s \in Sessions : WatchRegister(s)
  \/ \E s \in Sessions : TimeoutDrain(s)
  \/ \E s \in Sessions : CloseConnection(s)

SpecLagging == InitLagging /\ [][NextLagging]_vars

\* ---- every kind of step side by side ----

\* the whole daemon with one read_line result: a request or an end of
\* stream next to a filesystem operation, the pipeline and the flusher
InitWhole ==
  /\ budget = [reqs |-> 1, fsops |-> MaxFsOps, loaded |-> MaxLoaded, entries |-> {Q1},
               saves |-> "none"]
  /\ InitState
  /\ calc = NoCalc

SpecWhole == InitWhole /\ [][Next]_vars

(***************************************************************************)
(* Properties.                                                             *)
(***************************************************************************)
\* the step in which connection s reads the request line and starts on it
Handles(s, line) ==
  \/ Malformed(s, line)
  \/ Unwatch(s, line)
  \/ WatchEnsure(s, line)
  \/ HashPersist(s, line)
  \/ HashTransient(s, line)

\* the lines the step writes to connection s
NewLines(s) == SubSeq(out'[s], Len(out[s]) + 1, Len(out'[s]))

\* the step answers the request of connection s with response
Responded(s, response) == Len(out'[s]) > Len(out[s]) /\ out'[s][Len(out[s]) + 1] = response

\* the events the step writes to connection s
WrittenEvents(s) == SelectSeq(NewLines(s), LAMBDA m : m.type = "event")

\* the directory root/path of a result-cache key is a component prefix of p
DirIsPrefixOf(key, p) ==
  IsPrefixSeq(Components(path_join(key.root, key.path)), Components(p))

\* C1: in every reachable state every key of the global Subscriptions map
\* has its root in WatcherMap.
C1_SubscribedRootsAreWatched ==
  \A k \in DOMAIN subscriptions : subscriptions[k].root \in daemon.root_watchers

\* a subscription is registered and a session has answered an unwatch of it
C1_Witness ==
  \E s \in Sessions : \E k \in DOMAIN subscriptions :
    /\ k \in unwatched[s]
    /\ out[s] # <<>> /\ out[s][Len(out[s])] = ResponseOk

\* C2: after a session's unwatch(key), no step writes an event with that key
\* to the session until the session watches the tuple again; this includes
\* the drain of the unwatch step itself, which meets the broadcasts that were
\* queued before.
C2_NoEventAfterUnwatch ==
  [][\A s \in Sessions : \A k \in unwatched'[s] :
       \A i \in 1..Len(WrittenEvents(s)) : WrittenEvents(s)[i].key # k]_vars

\* a session has unwatched a key and a broadcast with that key waits in its
\* receiver
C2_Witness ==
  \E s \in Sessions : \E k \in unwatched[s] :
    /\ out[s] # <<>> /\ out[s][Len(out[s])] = ResponseOk
    /\ \E i \in 1..Len(rx[s]) : rx[s][i].key = k

\* C3: a step that drains a session's receiver writes exactly the items whose
\* key is in the session's set, in order, and no other step writes an event;
\* every event a session has received carries a key the session watched
\* before.
C3_EventIffSubscribed ==
  [][\A s \in Sessions :
       /\ WrittenEvents(s) =
            IF spc'[s] = "closed" \/ rx'[s] # <<>>
            THEN <<>>
            ELSE LET mine == SelectSeq(rx[s], LAMBDA item : item.key \in session'[s])
                 IN  [i \in 1..Len(mine) |->
                        SubscriptionEvent(mine[i].key, mine[i].paths)]
       /\ \A i \in 1..Len(out'[s]) :
            out'[s][i].type = "event" =>
              \E j \in 1..(i - 1) : out'[s][j] = ResponseWatch(out'[s][i].key)]_vars

\* one session has received an event whose key another subscribed session
\* does not have, and that session has consumed the broadcast without
\* receiving anything
C3_Witness ==
  \E s1 \in Sessions : \E s2 \in Sessions \ {s1} :
    \E i \in 1..Len(out[s1]) :
      /\ out[s1][i].type = "event"
      /\ session[s2] # {}
      /\ out[s1][i].key \notin session[s2]
      /\ rx[s2] = <<>>
      /\ \A j \in 1..Len(out[s2]) : out[s2][j].type # "event"

\* C4: after an unwatch(key) request the global Subscriptions map has no
\* entry for key and PersistedState has no WatchEntry with that key.
C4_UnwatchRemovesGlobally ==
  [][\A s \in Sessions : \A k \in Keys :
       Handles(s, UnwatchLine(k)) =>
         /\ k \notin DOMAIN subscriptions'
         /\ \A e \in persisted' : SubscriptionKeyOf(e) # k]_vars

\* C5: when an unwatch(key) request meets the last Subscriptions entry and
\* the last WatchEntry of a root, the root is not in WatcherMap afterwards.
C5_LastUnwatchStopsWatching ==
  [][\A s \in Sessions : \A k \in Keys :
       (/\ Handles(s, UnwatchLine(k))
        /\ k \in DOMAIN subscriptions
        /\ \A k2 \in DOMAIN subscriptions \ {k} :
             subscriptions[k2].root # subscriptions[k].root
        /\ \A e \in persisted :
             e.root = subscriptions[k].root => SubscriptionKeyOf(e) = k)
       => subscriptions[k].root \notin daemon'.root_watchers]_vars

\* C6: an unwatch request is answered {ok:true} for every key; when the key
\* is neither in the session's set nor in Subscriptions, the session sets,
\* Subscriptions, PersistedState and WatcherMap are unchanged.
C6_UnwatchAlwaysOk ==
  [][\A s \in Sessions : \A k \in Keys :
       Handles(s, UnwatchLine(k)) =>
         /\ Responded(s, ResponseOk)
         /\ (k \notin session[s] /\ k \notin DOMAIN subscriptions) =>
              /\ session' = session
              /\ subscriptions' = subscriptions
              /\ persisted' = persisted
              /\ daemon'.root_watchers = daemon.root_watchers]_vars

\* a session with a subscription has unwatched a key nobody knows and has
\* its answer
C6_Witness ==
  \E s \in Sessions :
    /\ session[s] # {}
    /\ OtherKey \in unwatched[s]
    /\ OtherKey \notin DOMAIN subscriptions
    /\ out[s][Len(out[s])] = ResponseOk

\* C7: a line that is no hash, watch or unwatch request is answered with an
\* error response; the session sets, Subscriptions, PersistedState, dirty,
\* both caches and WatcherMap are unchanged, and the connection is back at
\* reading requests.
C7_MalformedChangesNothing ==
  [][\A s \in Sessions : \A line \in MalformedLines :
       Handles(s, line) =>
         /\ spc'[s] = "read"
         /\ Len(out'[s]) > Len(out[s])
         /\ out'[s][Len(out[s]) + 1].type = "error"
         /\ session' = session
         /\ subscriptions' = subscriptions
         /\ persisted' = persisted
         /\ dirty' = dirty
         /\ daemon' = daemon]_vars

\* a connection was answered an error and has served a later request
C7_Witness ==
  \E s \in Sessions : \E i \in 1..Len(out[s]) :
    /\ out[s][i].type = "error"
    /\ out[s][i].error = "Invalid request"
    /\ i < Len(out[s])

\* the hash request lines for query q
HashLinesOf(q) == {HashLine(q, TRUE), HashLine(q, FALSE), HashLineDefault(q)}

IsPersistent(line) == "persistent" \in DOMAIN line /\ line.persistent

\* the step in which daemon::hash runs for the request line of connection s
HashStep(s, line) ==
  \/ HashTransient(s, line)
  \/ spc[s] = "hash_daemon" /\ req[s] = line /\ HashPersistent(s)

\* C8 as stated: after hash(q) returned (h, n), with no invalidate_file in
\* between, every further hash(q) answers (h, n) and leaves both caches
\* unchanged.
C8_SecondHashAlwaysHits ==
  [][\A s \in Sessions : \A q \in Queries : \A line \in HashLinesOf(q) :
       (q \in DOMAIN returned /\ out'[s] # out[s] /\ HashStep(s, line)) =>
         /\ daemon'.file_cache = daemon.file_cache
         /\ daemon'.result_cache = daemon.result_cache
         /\ Responded(s, ResponseHash(returned[q]))]_vars

\* C8: after hash(q) returned (h, n), with no invalidate_file in between, a
\* further hash(q) leaves both caches unchanged and answers (h, n), whatever
\* the files are by then and whether or not they can be read, unless it is
\* persistent, its root has no watcher and the watcher cannot be installed:
\* then it answers the Watch error.
C8_SecondHashHitsOrNoWatcher ==
  [][\A s \in Sessions : \A q \in Queries : \A line \in HashLinesOf(q) :
       (q \in DOMAIN returned /\ out'[s] # out[s] /\ HashStep(s, line)) =>
         /\ daemon'.file_cache = daemon.file_cache
         /\ daemon'.result_cache = daemon.result_cache
         /\ \/ Responded(s, ResponseHash(returned[q]))
            \/ /\ IsPersistent(line)
               /\ q.root \notin daemon.root_watchers
               /\ q.root \notin daemon'.root_watchers
               /\ Responded(s, ResponseError("Watch"))]_vars

\* a connection got the same answer to two hash requests for the one query in
\* the result cache, with a file of the query changed by then
C8_Witness ==
  \E s \in Sessions : \E q \in Queries :
    /\ DOMAIN daemon.result_cache = {q}
    /\ q \in DOMAIN returned
    /\ out[s] = <<ResponseHash(returned[q]), ResponseHash(returned[q])>>
    /\ \E f \in Files : fs[f] # InitialFs[f] /\ matches_watch(fs, f, q.root, q.path, q.glob)

\* C9: right after invalidate_file(p) the per-file cache has no entry for p
\* and the result cache has no entry whose directory root/path is a
\* component prefix of p, whatever its glob.
C9_InvalidateIsCoarse ==
  [][PipeInvalidate =>
       /\ Head(todo) \notin DOMAIN daemon'.file_cache
       /\ \A key \in DOMAIN daemon'.result_cache : ~DirIsPrefixOf(key, Head(todo))]_vars

\* the one hash request was for Q3 and was answered; then n.txt, which Q3's
\* glob does not match, was created and invalidated, and the result is gone
C9_Witness ==
  /\ ppc = "match"
  /\ ready = <<FileN>>
  /\ nreq = 1
  /\ DOMAIN daemon.file_cache = {FileC}
  /\ DOMAIN daemon.result_cache = {}
  /\ ~glob_is_match(Q3.glob, strip_prefix(FileN, path_join(Q3.root, Q3.path)))
  /\ \E s \in Sessions : out[s] # <<>> /\ out[s][1].type = "hash"

\* C10: however often ensure_watching, watch and hash(persistent) ran for a
\* root, one OS watcher was installed for it when it is in WatcherMap and
\* none when it is not.
C10_OneWatcherPerRoot ==
  \A r \in Roots :
    watcher_installs[r] = (IF r \in daemon.root_watchers THEN 1 ELSE 0)

\* both sessions have watched under one root
C10_Witness ==
  \E r \in Roots :
    /\ watcher_installs[r] = 1
    /\ \A s \in Sessions :
         \E k \in session[s] : k \in DOMAIN subscriptions /\ subscriptions[k].root = r

\* no field of the tuple holds the character U+0000
NulFree(tuple) ==
  \A field \in {tuple.root, tuple.path, tuple.glob} :
    \A i \in 1..Len(field) : field[i] # "nul"

IsLowerHex(key) == \A i \in 1..Len(key) : \E d \in 1..16 : key[i] = HexDigits[d]

\* C11 as stated: equal tuples give the same key of 32 lowercase hex digits,
\* and any two different tuples have different pre-images and different keys.
C11_DifferentTuplesDifferentKeys ==
  calc.fn = "make_subscription_key" =>
    /\ Len(calc.key_a) = KEY_HEX_WIDTH /\ IsLowerHex(calc.key_a)
    /\ calc.a = calc.b => calc.key_a = calc.key_b
    /\ calc.a # calc.b => calc.input_a # calc.input_b /\ calc.key_a # calc.key_b

\* C11, amended: equal tuples give the same key of 32 lowercase hex digits;
\* two different tuples none of whose fields holds U+0000 have different
\* pre-images; and the keys differ whenever xxh3_128 of the pre-images does.
C11_KeyOfTuple ==
  calc.fn = "make_subscription_key" =>
    /\ Len(calc.key_a) = KEY_HEX_WIDTH /\ IsLowerHex(calc.key_a)
    /\ calc.a = calc.b => calc.key_a = calc.key_b
    /\ (calc.a # calc.b /\ NulFree(calc.a) /\ NulFree(calc.b)) =>
         calc.input_a # calc.input_b
    /\ xxh3_128(calc.input_a) # xxh3_128(calc.input_b) => calc.key_a # calc.key_b

C11_Witness ==
  /\ calc.fn = "make_subscription_key"
  /\ calc.a # calc.b /\ NulFree(calc.a) /\ NulFree(calc.b)
  /\ calc.a.root \o calc.a.path = calc.b.root \o calc.b.path
  /\ calc.key_a # calc.key_b

\* C12: aggregate_hashes gives the same value for a vector of file hashes
\* and for any rearrangement of it, so hash_with_cache returns the same
\* result and leaves the same per-file cache whatever the order in which
\* the files of the query were enumerated.
C12_AggregateIgnoresOrder ==
  /\ calc.fn = "aggregate_hashes" => calc.hash_a = calc.hash_b
  /\ calc.fn = "hash_with_cache" => calc.result_a = calc.result_b

C12_Witness ==
  /\ calc.fn = "aggregate_hashes"
  /\ Len(calc.hashes) = MaxHashes
  /\ calc.hashes # calc.shuffled
  /\ calc.hashes # SortSeq(calc.hashes, LAMBDA a, b : a < b)
  /\ calc.hash_a = calc.hash_b

\* no result in the result cache and no hash response counts zero files
NoEmptyResult ==
  /\ \A key \in DOMAIN daemon.result_cache : daemon.result_cache[key].file_count > 0
  /\ \A s \in Sessions : \A i \in 1..Len(out[s]) :
       out[s][i].type = "hash" => out[s][i].file_count > 0

\* the files the query of a hash request line matches now
MatchedNow(line) == list_files(fs, line.root, line.path, line.glob)

\* C13 as stated: a hash query that matches no file is answered with the
\* NoFilesMatched error, never with a hash result, and no hash response and
\* no result cache entry has file_count = 0.
C13_NoMatchIsAlwaysError ==
  [][/\ \A s \in Sessions : \A q \in Queries : \A line \in HashLinesOf(q) :
          (out'[s] # out[s] /\ MatchedNow(line) = {} /\ HashStep(s, line)) =>
            Responded(s, ResponseError("NoFilesMatched"))
     /\ NoEmptyResult']_vars

\* C13, amended: a hash query that matches no file, is not answered from the
\* result cache and, when persistent, has the watcher of its root, is
\* answered with the NoFilesMatched error; a result cached while files
\* matched is still returned; and no hash response and no result cache entry
\* ever has file_count = 0.
C13_NoMatchIsErrorOnMiss ==
  [][/\ \A s \in Sessions : \A q \in Queries : \A line \in HashLinesOf(q) :
          (out'[s] # out[s] /\ MatchedNow(line) = {} /\ HashStep(s, line)) =>
            IF IsPersistent(line) /\ q.root \notin daemon'.root_watchers
            THEN Responded(s, ResponseError("Watch"))
            ELSE IF q \in DOMAIN daemon.result_cache
            THEN Responded(s, ResponseHash(daemon.result_cache[q]))
            ELSE Responded(s, ResponseError("NoFilesMatched"))
     /\ NoEmptyResult']_vars

\* a hash request for a query whose only file was removed got the error
C13_Witness ==
  \E s \in Sessions :
    /\ out[s] # <<>>
    /\ out[s][Len(out[s])] = ResponseError("NoFilesMatched")
    /\ fs[FileB] = NoFile
    /\ Q2 \notin DOMAIN daemon.result_cache

\* C14: a hash request answered with an error (the glob does not compile, no
\* file matched, a read failed, the watcher could not be installed) leaves
\* the result cache as it was and every per-file hash in place; when a read
\* failed, the per-file cache has gained exactly the hashes of the files
\* enumerated before the one whose read failed.
C14_FailedHashKeepsCaches ==
  [][\A s \in Sessions : \A line \in HashingLines :
       (/\ out'[s] # out[s]
        /\ HashStep(s, line)
        /\ out'[s][Len(out[s]) + 1].type = "error") =>
          /\ daemon'.result_cache = daemon.result_cache
          /\ \A f \in DOMAIN daemon.file_cache :
               f \in DOMAIN daemon'.file_cache
               /\ daemon'.file_cache[f] = daemon.file_cache[f]
          /\ IF Responded(s, ResponseError("ReadFile"))
             THEN \A files \in Enumerations(fs, line) :
                    \A i \in FailChoices(daemon, files) \ {0} :
                      hash_with_cache(daemon.file_cache, files, line.glob, fs, i).cache
                          = daemon'.file_cache =>
                        /\ files[i] \notin DOMAIN daemon'.file_cache
                        /\ DOMAIN daemon'.file_cache =
                             DOMAIN daemon.file_cache \cup {files[j] : j \in 1..(i - 1)}
                        /\ \A j \in 1..(i - 1) :
                             files[j] \notin DOMAIN daemon.file_cache =>
                               daemon'.file_cache[files[j]] = hash_file(fs[files[j]])
             ELSE daemon'.file_cache = daemon.file_cache]_vars

\* the only request so far failed at its second read: the first file's hash
\* is cached, no result is
C14_Witness ==
  \E s \in Sessions :
    /\ nreq = 1
    /\ persisted = {}
    /\ out[s] = <<ResponseError("ReadFile")>>
    /\ DOMAIN daemon.file_cache # {}
    /\ DOMAIN daemon.result_cache = {}

\* C15: when the watcher of the root cannot be installed, a watch request and
\* a hash request with persistent = true are answered with an error and
\* leave the watcher map, the persisted watch set, the subscriptions and the
\* session's set as they were before the request.
C15_FailedInstallLeavesNothing ==
  [][\A s \in Sessions :
       /\ (/\ spc[s] = "read"
           /\ Responded(s, ResponseError("Failed to start watcher"))) =>
             /\ daemon'.root_watchers = daemon.root_watchers
             /\ persisted' = persisted
             /\ subscriptions' = subscriptions
             /\ session'[s] = session[s]
       /\ (/\ spc[s] = "hash_daemon"
           /\ Responded(s, ResponseError("Watch"))) =>
             /\ daemon'.root_watchers = daemon.root_watchers
             /\ persisted' = persisted
             /\ hist.added[s] = {}
             /\ subscriptions' = subscriptions
             /\ session'[s] = session[s]]_vars

\* C16: the end of a connection drops that connection's session and nothing
\* else: the subscriptions, the persisted watch set, the watcher map and the
\* other sessions' sets stay as they are; and a key, a watch entry or a
\* watcher leaves them in no step other than an unwatch request.
C16_DisconnectDropsOnlySession ==
  [][/\ \A s \in Sessions :
          (spc[s] # "closed" /\ spc'[s] = "closed") =>
            /\ session'[s] = Session_new
            /\ subscriptions' = subscriptions
            /\ persisted' = persisted
            /\ daemon'.root_watchers = daemon.root_watchers
            /\ \A t \in Sessions \ {s} : session'[t] = session[t]
     /\ (\/ \E k \in DOMAIN subscriptions :
               k \notin DOMAIN subscriptions' \/ subscriptions'[k] # subscriptions[k]
         \/ ~(persisted \subseteq persisted')
         \/ ~(daemon.root_watchers \subseteq daemon'.root_watchers)) =>
           \E s \in Sessions, k \in Keys : Unwatch(s, UnwatchLine(k))]_vars

\* a connection that watched a key has ended while another session holds a
\* key: the ended connection's key, entry and watcher are still there
C16_Witness ==
  \E s \in Sessions : \E q \in Queries :
    /\ spc[s] = "closed"
    /\ out[s] = <<ResponseWatch(KeyOf[q])>>
    /\ KeyOf[q] \in DOMAIN subscriptions
    /\ q \in persisted
    /\ q.root \in daemon.root_watchers
    /\ \E t \in Sessions \ {s} : session[t] # {}

\* C17: a restore step for a loaded watch entry whose watcher is installed
\* puts make_subscription_key(root, path, glob) into the subscriptions,
\* mapped to the entry's tuple, and keeps what earlier restore steps put
\* there; and a watch request is answered with make_subscription_key of its
\* tuple, so a client that watches a restored tuple receives the restored
\* key.
C17_RestoredKeysAreWatchKeys ==
  [][/\ \A e \in Queries :
          (e \in restore_todo /\ e \notin restore_todo') =>
            /\ e.root \in daemon'.root_watchers =>
                 LET key == make_subscription_key(e.root, e.path, e.glob)
                 IN  /\ key \in DOMAIN subscriptions'
                     /\ subscriptions'[key] = e
            /\ daemon.root_watchers \subseteq daemon'.root_watchers
            /\ \A k \in DOMAIN subscriptions :
                 k \in DOMAIN subscriptions' /\ subscriptions'[k] = subscriptions[k]
     /\ \A s \in Sessions :
          (spc[s] = "watch_register" /\ spc'[s] = "read") =>
            LET r == Parsed(s)
                key == make_subscription_key(r.root, r.path, r.glob)
            IN  /\ Responded(s, ResponseWatch(key))
                /\ key \in DOMAIN subscriptions'
                /\ subscriptions'[key] = EntryOf(r)]_vars

\* a client watched the tuple of a restored entry and got the key under
\* which restore_watchers had registered it
C17_Witness ==
  \E e \in Queries : \E s \in Sessions :
    /\ Running
    /\ dirty = FALSE
    /\ e \in persisted
    /\ e \in rehash
    /\ e.root \in daemon.root_watchers
    /\ subscriptions[KeyOf[e]] = e
    /\ out[s] = <<ResponseWatch(KeyOf[e])>>

\* f is g or g with more arguments
Extends(f, g) == \A x \in DOMAIN g : x \in DOMAIN f /\ f[x] = g[x]

\* C18: a background re-hash changes nothing but the two caches, to which it
\* only adds, also when it fails, and every other task goes on as before;
\* and whatever the state, ensure_watching and hash called without an event
\* sink return no watcher error and leave the watcher map as it is.
C18_NoSinkNoWatcher ==
  [][(rehash' # rehash /\ restore_todo' = restore_todo) =>
       /\ daemon'.root_watchers = daemon.root_watchers
       /\ watcher_installs' = watcher_installs
       /\ Extends(daemon'.file_cache, daemon.file_cache)
       /\ Extends(daemon'.result_cache, daemon.result_cache)
       /\ UNCHANGED <<persistVars, subscriptions, fsVars, event_q, pipeVars, fpc, connVars>>
       /\ \A root \in Roots : \A installOk \in BOOLEAN :
            LET w == ensure_watching(daemon, root, FALSE, installOk)
            IN  w.err = "" /\ w.state = daemon /\ ~w.installed
       /\ \A q \in Queries : \A persistent \in BOOLEAN : \A installOk \in BOOLEAN :
            \A files \in Walks(daemon, fs, q) :
              LET h == hash(daemon, q.root, q.path, q.glob, persistent, FALSE, installOk,
                            fs, files, 0)
              IN  /\ h.err # "Watch"
                  /\ h.state.root_watchers = daemon.root_watchers
                  /\ ~h.installed]_vars

\* before any request, the re-hash of the restored entry has filled both
\* caches; the watcher map holds the restored root only
C18_Witness ==
  /\ Running
  /\ nreq = 0
  /\ rehash = {}
  /\ \E e \in persisted :
       /\ daemon.root_watchers = {e.root}
       /\ e \in DOMAIN daemon.result_cache
       /\ DOMAIN daemon.file_cache # {}
       /\ subscriptions = (KeyOf[e] :> e)

\* the records with the key among those waiting in a receiver
RecordsFor(q, key) == SelectSeq(q, LAMBDA item : item.key = key)

\* C19 as stated: the relevant events the pipeline receives within one
\* debounce window of 100 ms lead to one broadcast record for a key they
\* match, be they for one path or for several: a receiver that lost nothing
\* holds at most one record of a key for every window opened so far.
C19_OneRecordPerWindow ==
  \A s \in Sessions :
    (spc[s] # "closed" /\ ~lagged[s]) =>
      \A key \in DOMAIN subscriptions : Len(RecordsFor(rx[s], key)) <= hist.windows

\* C19, amended: the paths whose deadlines have passed at one flush tick,
\* each taken once however many events it had, lead to exactly one broadcast
\* record for every subscription key that at least one of them matches, and
\* the record carries all the matching paths of that flush (seen at every
\* receiver that has lost no record).
C19_OneRecordPerKeyPerFlush ==
  [][(ppc = "match" /\ ppc' = "select") =>
       /\ \A i, j \in 1..Len(ready) : ready[i] = ready[j] => i = j
       /\ \A s \in Sessions :
            (spc[s] # "closed" /\ ~lagged'[s]) =>
               LET new == SubSeq(rx'[s], Len(rx[s]) + 1, Len(rx'[s]))
               IN  /\ \A i, j \in 1..Len(new) : new[i].key = new[j].key => i = j
                   /\ {new[i].key : i \in 1..Len(new)} =
                        {k \in DOMAIN subscriptions :
                           \E i \in 1..Len(ready) :
                             matches_watch(fs, ready[i], subscriptions[k].root,
                                           subscriptions[k].path, subscriptions[k].glob)}
                   /\ \A i \in 1..Len(new) :
                        new[i].paths = MatchedPaths(ready, subscriptions[new[i].key])]_vars

\* two files changed in one window and were flushed together: one record
\* with both paths
C19_Witness ==
  \E s \in Sessions :
    /\ hist.windows = 1
    /\ nfs = MaxBurst
    /\ Len(rx[s]) = 1
    /\ Len(rx[s][1].paths) = 2


\* C20: whenever the pipeline broadcasts a record (key, paths), invalidate_file
\* has been applied to every path of paths, and neither the ResultCache entry
\* of the key's tuple nor the PerFileCache entry of a changed file that the
\* tuple enumerates dates from before that invalidation, so that a hash
\* request made in reaction to the record is computed afresh.
C20_ReactionNeverServedStale ==
  ppc = "match" =>
    \A k \in DOMAIN subscriptions :
      LET sub == subscriptions[k]
          paths == MatchedPaths(ready, sub)
          changed == {Resolve(paths[i]) : i \in 1..Len(paths)}
      IN  paths # <<>> =>
            /\ \A i \in 1..Len(paths) : paths[i] \in hist.invalidated
            /\ sub \notin hist.old_results
            /\ \A n \in hist.old_files :
                 ~(FileOf[n] \in changed /\ path_starts_with(n, path_join(sub.root, sub.path)))

\* every path of a record has been invalidated as it is named
C20_PathsInvalidatedAsNamed ==
  ppc = "match" =>
    /\ \A i \in 1..Len(ready) : ready[i] \in hist.invalidated
    /\ \A i \in 1..Len(ready) :
         /\ ready[i] \notin hist.old_files
         /\ \A key \in hist.old_results :
              ~path_starts_with(ready[i], path_join(key.root, key.path))


\* C21: when a watch(root, path, glob) request is answered with {key}, key
\* is make_subscription_key(root, path, glob), the watcher map contains root,
\* the persisted watch set contains the entry, Subscriptions maps key to the
\* tuple and the session's subscription set contains key.
C21_WatchEstablishesAll ==
  [][\A s \in Sessions :
       (/\ spc[s] = "watch_register"
        /\ Len(out'[s]) > Len(out[s])
        /\ out'[s][Len(out[s]) + 1].type = "key") =>
          LET r == parse_request(req[s])
              key == make_subscription_key(r.root, r.path, r.glob)
          IN  /\ r.tag = "Watch"
              /\ out'[s][Len(out[s]) + 1] = ResponseWatch(key)
              /\ r.root \in daemon'.root_watchers
              /\ [root |-> r.root, path |-> r.path, glob |-> r.glob] \in persisted'
              /\ key \in DOMAIN subscriptions'
              /\ subscriptions'[key] = [root |-> r.root, path |-> r.path, glob |-> r.glob]
              /\ key \in session'[s]]_vars

\* a connection has been answered with the key of Q2, on a daemon that had
\* nothing persisted, while the other connection is in the middle of a watch
C21_Witness ==
  \E s \in Sessions : \E t \in Sessions \ {s} :
    /\ out[s] = <<ResponseWatch(KeyOf[Q2])>>
    /\ session[s] = {KeyOf[Q2]}
    /\ persisted = {Q2}
    /\ disk = {}
    /\ spc[t] = "watch_persist"


\* C22: a hash request with persistent=true inserts its WatchEntry into the
\* persisted watch set and sets dirty when the entry is new; when it is
\* answered with a hash result the entry is in the persisted set and the
\* watcher map has a watcher for root. A hash request with persistent=false
\* changes neither the persisted watch set nor dirty.
C22_PersistentHashPersists ==
  [][\A s \in Sessions :
       /\ \A line \in PersistingLines :
            (spc[s] = "read" /\ spc'[s] = "hash_daemon" /\ req'[s] = line) =>
              LET entry == EntryOf(parse_request(line))
              IN  /\ entry \in persisted'
                  /\ entry \notin persisted => dirty'
       /\ (/\ spc[s] = "hash_daemon"
           /\ Len(out'[s]) > Len(out[s])
           /\ out'[s][Len(out[s]) + 1].type = "hash") =>
             /\ EntryOf(Parsed(s)) \in persisted'
             /\ Parsed(s).root \in daemon'.root_watchers
       /\ (/\ spc[s] = "read" /\ spc'[s] = "read"
           /\ Len(out'[s]) > Len(out[s])
           /\ out'[s][Len(out[s]) + 1].type \in {"hash", "error"}
           /\ nreq' # nreq) =>
             /\ persisted' = persisted
             /\ dirty' = dirty]_vars

\* a persistent hash of Q1 on a daemon with nothing persisted has been
\* answered with a hash, the flush task has since cleared dirty, and the
\* other connection has been answered a transient hash of Q3
C22_Witness ==
  \E s \in Sessions : \E t \in Sessions \ {s} :
    /\ persisted = {Q1}
    /\ daemon.root_watchers = {RootR}
    /\ Len(out[s]) = 1 /\ out[s][1].type = "hash" /\ out[s][1].file_count = 2
    /\ Len(out[t]) = 1 /\ out[t][1].type = "hash" /\ out[t][1].file_count = 1
    /\ Q3 \in DOMAIN daemon.result_cache
    /\ ~dirty /\ fpc = "idle"


\* C23: no mutation of the persisted watch set is lost by the flusher: as
\* long as the saves of the flusher succeed, whenever dirty is false and no
\* flush is in progress, the watch set in the state file equals the
\* in-memory watch set, under any interleaving of requests and flusher.
C23_CleanMeansSaved ==
  (~dirty /\ fpc = "idle") => disk = persisted

\* two entries are in memory, more than the state file held at startup, and
\* the flusher has cleared dirty and finished
C23_Witness ==
  /\ ~dirty
  /\ fpc = "idle"
  /\ Cardinality(persisted) = 2
  /\ disk = persisted
  /\ \E s \in Sessions : spc[s] = "hash_daemon"


\* a step in which a request saved the watch set and the state file was
\* left without the new entry; a step in which the flusher's save left the
\* state file different from the watch set
RequestSaveFailed == persisted' # persisted /\ disk' # persisted'
FlusherSaveFailed == fpc = "save" /\ fpc' = "idle" /\ disk' # persisted'

\* the step writes nothing to any connection and the request that saved
\* goes on as it does after a successful save
SaveFailureUnreported ==
  /\ out' = out
  /\ \A s \in Sessions :
       /\ spc[s] = "watch_persist" => spc'[s] \in {"watch_persist", "watch_register"}
       /\ spc'[s] = "hash_daemon" => spc[s] \in {"read", "hash_daemon"}
       /\ spc[s] # "closed" => spc'[s] # "closed"

\* C24 as stated: after any save that failed, no client is told and dirty is set.
C24_FailedSaveKeepsDirty ==
  [][(RequestSaveFailed \/ FlusherSaveFailed) => (SaveFailureUnreported /\ dirty')]_vars

\* C24: a failed save is never reported to a client. When the save made by
\* a request fails, dirty is set afterwards, so that the next flusher tick
\* saves again; when the save made by the flusher fails, the flusher has
\* already cleared dirty and the failure does not set it again.
C24_OnlyRequestSaveKeepsDirty ==
  [][/\ RequestSaveFailed => (SaveFailureUnreported /\ dirty')
     /\ FlusherSaveFailed => (SaveFailureUnreported /\ dirty' = dirty)]_vars

\* the flusher's save has failed after a request's save had failed: dirty is
\* clear, no flush is in progress and the state file lacks an entry, while
\* the request has been answered with its key
C24_Witness ==
  \E s \in Sessions :
    /\ ~dirty
    /\ fpc = "idle"
    /\ disk = {}
    /\ persisted = {Q3}
    /\ out[s] = <<ResponseWatch(KeyOf[Q3])>>


\* C25: no task ever holds more than one of the shared locks (daemon,
\* persisted, subscriptions) at a time, and a task that is about to write to
\* a socket holds none.
C25_OneLockNoneAtSocket ==
  calc.fn = "locks" =>
    \A t \in LockTasks :
      /\ Cardinality({h.lock : h \in calc.held[t]}) <= 1
      /\ (/\ calc.at[t] <= Len(calc.run[t])
          /\ calc.run[t][calc.at[t]].op = "socket") => calc.held[t] = {}

\* a connection is about to write its response while the other connection
\* holds the daemon lock and the pipeline reads the subscriptions
C25_Witness ==
  /\ calc.fn = "locks"
  /\ \E t \in {"connection 1", "connection 2"} :
       /\ calc.at[t] <= Len(calc.run[t])
       /\ calc.run[t][calc.at[t]].op = "socket"
       /\ calc.at[t] > 1
  /\ \E u \in {"connection 1", "connection 2"} :
       calc.held[u] = {[lock |-> "daemon", mode |-> "write"]}
  /\ calc.held["pipeline"] = {[lock |-> "subscriptions", mode |-> "read"]}


\* C26: invalidate_file(path) and a broadcast listing the path happen no
\* earlier than DEBOUNCE_MS after the pipeline last received a relevant
\* event for the path: a relevant event sets the deadline of each of its
\* paths anew, whether the path was pending or not, and the flush takes the
\* path out of pending.
C26_FlushOnlyAfterQuiet ==
  [][/\ (ppc = "invalidate" /\ todo' # todo) =>
          /\ hist.age[Head(todo)] >= DEBOUNCE_MS
          /\ Head(todo) \notin DOMAIN pending'
     /\ (ppc = "match" /\ ppc' = "select") =>
          \A i \in 1..Len(ready) :
            /\ hist.age[ready[i]] >= DEBOUNCE_MS
            /\ ready[i] \notin DOMAIN pending
     /\ (event_q' # event_q /\ ppc = "select" /\ Len(event_q') < Len(event_q)
         /\ is_relevant(Head(event_q).kind)) =>
          \A i \in 1..Len(Head(event_q).paths) :
            pending'[Head(event_q).paths[i]] = DEBOUNCE_MS]_vars

\* a file was written twice, the second event reached the pipeline while
\* the path was pending, and the one batch with the path has been
\* invalidated and is about to be matched
C26_Witness ==
  /\ ppc = "match"
  /\ ready = <<FileA>>
  /\ nfs = 2
  /\ fs[FileA] = Content1
  /\ event_q = <<>>
  /\ pending = EmptyMap
  /\ hist.windows = 1
  /\ rx = [s \in Sessions |-> <<>>]


C28_FullChannelDropsNewest ==
  /\ [](Len(event_q) <= EventChanCap)
  /\ []((Len(event_q) = EventChanCap /\ nfs < budget.fsops) =>
          \A f \in Files : ENABLED FsWrite(f))
  /\ [][(nfs' # nfs /\ Len(event_q) = EventChanCap) => event_q' = event_q]_vars
  /\ [][Len(event_q') < Len(event_q) => event_q' = Tail(event_q)]_vars
  /\ (Len(event_q) = EventChanCap) ~> (event_q = <<>>)

\* FileA was modified, FileB was modified and FileA was removed before the
\* pipeline took an event: the event of the removal found the channel full
C28_Witness ==
  /\ nfs = EventChanCap + 1
  /\ event_q = <<[kind |-> "Modify", paths |-> <<FileA>>],
                 [kind |-> "Modify", paths |-> <<FileB>>]>>
  /\ fs[FileA] = NoFile
  /\ pending = EmptyMap


\* C29: a session whose broadcast receiver lagged skips the lost records and
\* goes on delivering the later ones for its keys. The broadcast that makes
\* a receiver lag and the drain that notices the lag leave the connection
\* open and change neither the session's subscription set, nor
\* Subscriptions, PersistedState, the caches or WatcherMap; the drain writes
\* the records the receiver still holds for the session's keys, and every
\* later flush reaches the receiver.
C29_LagSkipsAndGoesOn ==
  [][\A s \in Sessions :
       /\ (~lagged[s] /\ lagged'[s]) =>
            /\ spc'[s] = spc[s]
            /\ session'[s] = session[s]
            /\ UNCHANGED <<daemonVars, persistVars, subscriptions>>
       /\ (lagged[s] /\ ~lagged'[s] /\ spc[s] = "read" /\ nreq' = nreq) =>
            /\ spc'[s] = "read"
            /\ session'[s] = session[s]
            /\ out'[s] = Drain(session[s], rx[s], out[s])
            /\ UNCHANGED <<daemonVars, persistVars, subscriptions>>
       /\ (lagged[s] /\ ~lagged'[s] /\ out'[s] # out[s]) => spc'[s] # "closed"
       /\ (hist.lost[s] /\ spc[s] # "closed" /\ ppc = "match" /\ ppc' = "select") =>
            LET matched == {k \in DOMAIN subscriptions :
                              MatchedPaths(ready, subscriptions[k]) # <<>>}
                n == Cardinality(matched)
            IN  n <= BroadcastCap =>
                  /\ Len(rx'[s]) >= n
                  /\ {rx'[s][i].key : i \in (Len(rx'[s]) - n + 1)..Len(rx'[s])} = matched]_vars

\* session 1 watched a query, two flushes sent more records than its
\* receiver holds before it looked; its next drain wrote the record of the
\* second flush for its key and the connection is open
C29_Witness ==
  /\ hist.lost[1]
  /\ ~lagged[1]
  /\ rx[1] = <<>>
  /\ spc[1] = "read"
  /\ nfs = MaxBurst
  /\ hist.windows = 2
  /\ Len(out[1]) = 2
  /\ out[1][1].type = "key"
  /\ out[1][2].type = "event"
  /\ out[1][2].key = out[1][1].key
  /\ session[1] = {out[1][1].key}


\* a watch of (root, path, glob) has been answered with its key on some
\* connection, open or closed
WatchAnswered(r) ==
  \E s \in Sessions : \E i \in 1..Len(out[s]) :
    out[s][i] = ResponseWatch(SubscriptionKeyOf(EntryOf(r)))

\* C30: watch is idempotent. Once a watch of (root, path, glob) has been
\* answered, every step of another watch of the same (root, path, glob), by
\* the same or by another session, leaves Subscriptions, PersistedState and
\* the watcher map as they are and ends with the same key in its response;
\* an answered watch has one Subscriptions entry, one WatchEntry and one
\* watcher on its root. (Distinct queries of the model have distinct keys.)
C30_WatchIdempotent ==
  /\ [](\A q1, q2 \in Queries : KeyOf[q1] = KeyOf[q2] => q1 = q2)
  /\ [](\A q \in Queries :
          WatchAnswered(q) =>
            /\ KeyOf[q] \in DOMAIN subscriptions
            /\ subscriptions[KeyOf[q]] = q
            /\ Cardinality({e \in persisted : SubscriptionKeyOf(e) = KeyOf[q]}) = 1
            /\ q \in persisted
            /\ q.root \in daemon.root_watchers
            /\ watcher_installs[q.root] = 1)
  /\ [][\A s \in Sessions :
          /\ (spc[s] = "read" /\ spc'[s] = "watch_persist" /\ WatchAnswered(parse_request(req'[s])))
               => UNCHANGED <<daemon, watcher_installs, persisted, subscriptions>>
          /\ (spc[s] = "watch_persist" /\ spc'[s] = "watch_register" /\ WatchAnswered(Parsed(s)))
               => UNCHANGED <<daemon, watcher_installs, persisted, subscriptions>>
          /\ (spc[s] = "watch_register" /\ spc'[s] = "read" /\ WatchAnswered(Parsed(s)))
               => /\ UNCHANGED <<daemon, watcher_installs, persisted, subscriptions>>
                  /\ out'[s][Len(out[s]) + 1] =
                       ResponseWatch(SubscriptionKeyOf(EntryOf(Parsed(s))))
          /\ \A line \in RequestLines :
               (parse_request(line).tag = "Watch" /\ WatchAnswered(parse_request(line))
                  /\ spc[s] = "read" /\ nreq < budget.reqs /\ Running)
               => ENABLED WatchEnsure(s, line)]_vars

\* session 1 watched Q1 twice and session 2 watched it once: three equal
\* responses, one subscription, one entry, one watcher
C30_Witness ==
  /\ out[1] = <<ResponseWatch(KeyOf[Q1]), ResponseWatch(KeyOf[Q1])>>
  /\ out[2] = <<ResponseWatch(KeyOf[Q1])>>
  /\ subscriptions = (KeyOf[Q1] :> Q1)
  /\ persisted = {Q1}
  /\ daemon.root_watchers = {RootR}
  /\ watcher_installs[RootR] = 1


\* C31: invalidate_file(p) removes only what it must: the per-file cache
\* keeps the entries of the paths other than p, the result cache keeps the
\* entries whose directory root/path is not a component prefix of p (a
\* result for /r is kept when /rs/a.rs changes), and the watcher map is
\* left as it is.
C31_InvalidateKeepsTheRest ==
  [][(ppc = "invalidate" /\ todo' # todo) =>
       LET p == Head(todo)
       IN  /\ \A f \in DOMAIN daemon.file_cache \ {p} :
                /\ f \in DOMAIN daemon'.file_cache
                /\ daemon'.file_cache[f] = daemon.file_cache[f]
           /\ \A key \in DOMAIN daemon.result_cache :
                ~DirIsPrefixOf(key, p) =>
                  /\ key \in DOMAIN daemon'.result_cache
                  /\ daemon'.result_cache[key] = daemon.result_cache[key]
           /\ daemon'.root_watchers = daemon.root_watchers
           /\ watcher_installs' = watcher_installs]_vars

\* the result of Q1, a query on /r, and the hash of /r/a.rs were cached
\* when /rs/a.rs was invalidated, and both are still there
C31_Witness ==
  /\ ppc = "match"
  /\ ready = <<FileC>>
  /\ hist.invalidated = {FileC}
  /\ \E key \in hist.old_results :
       /\ key.root = RootR
       /\ key \in DOMAIN daemon.result_cache
  /\ FileA \in hist.old_files
  /\ FileA \in DOMAIN daemon.file_cache


\* C32: a per-file cache entry is inserted only by a read of the file that
\* succeeded (the file exists and the entry is the hash of what it holds at
\* the read), is removed only by invalidate_file of its path, and keeps its
\* value in between; so every entry was read after the last invalidation of
\* its path.
C32_EntriesFromReadsUntilInvalidated ==
  [][daemon'.file_cache # daemon.file_cache =>
       /\ \A f \in DOMAIN daemon'.file_cache \ DOMAIN daemon.file_cache :
            /\ ppc' = ppc /\ todo' = todo
            /\ fs' = fs
            /\ fs[FileOf[f]] # NoFile
            /\ daemon'.file_cache[f] = hash_file(fs[FileOf[f]])
       /\ \A f \in DOMAIN daemon.file_cache \ DOMAIN daemon'.file_cache :
            /\ ppc = "invalidate"
            /\ f = Head(todo)
       /\ \A f \in DOMAIN daemon.file_cache \cap DOMAIN daemon'.file_cache :
            daemon'.file_cache[f] = daemon.file_cache[f]]_vars

\* /r/a.rs was hashed, changed and invalidated, and hashed again: its entry
\* is the hash of the new contents
C32_Witness ==
  /\ nfs = 1
  /\ fs[FileA] = Content2
  /\ hist.windows = 1
  /\ pending = EmptyMap
  /\ ppc = "select"
  /\ FileA \in DOMAIN daemon.file_cache
  /\ daemon.file_cache[FileA] = hash_file(Content2)
  /\ nreq = MaxReqs
  /\ Cardinality(DOMAIN daemon.result_cache) = 1
  /\ \E s \in Sessions :
       /\ Len(out[s]) = 2
       /\ out[s][1].type = "hash" /\ out[s][2].type = "hash"
       /\ out[s][1].hash # out[s][2].hash


\* the aggregate of the per-file cache values of a set of files
AggregateOf(cache, F) ==
  LET order == CHOOSE o \in Permutations_of(F) : TRUE
  IN  aggregate_hashes([i \in 1..Len(order) |-> cache[order[i]]])

\* the sets of cached files under the directory of a result-cache key and
\* matching its glob that account for the cached result
Contributors(state, key) ==
  LET dir == path_join(key.root, key.path)
      under == {f \in DOMAIN state.file_cache :
                  path_starts_with(f, dir) /\ matches_relative(key.glob, f, dir)}
  IN  {F \in SUBSET under :
         /\ Cardinality(F) = state.result_cache[key].file_count
         /\ AggregateOf(state.file_cache, F) = state.result_cache[key].hash}

\* C33: every result-cache entry was computed after the last invalidation
\* of any path under its root/path, the files that contributed to it are in
\* the per-file cache, and its hash is the aggregate of their cached values
\* with file_count their number: an entry is added only by a hash, from all
\* the files its query lists at that moment; it goes with the invalidation
\* of any path under its directory, and is never altered.
C33_ResultsAgreeWithFileCache ==
  /\ [](\A key \in DOMAIN daemon.result_cache :
          /\ daemon.result_cache[key].file_count > 0
          /\ Contributors(daemon, key) # {})
  /\ [][daemon'.result_cache # daemon.result_cache =>
          /\ \A key \in DOMAIN daemon'.result_cache \ DOMAIN daemon.result_cache :
               LET F == list_files(fs, key.root, key.path, key.glob)
               IN  /\ ppc' = ppc /\ todo' = todo
                   /\ F \subseteq DOMAIN daemon'.file_cache
                   /\ daemon'.result_cache[key].file_count = Cardinality(F)
                   /\ daemon'.result_cache[key].hash = AggregateOf(daemon'.file_cache, F)
          /\ \A key \in DOMAIN daemon.result_cache \ DOMAIN daemon'.result_cache :
               ppc = "invalidate" /\ DirIsPrefixOf(key, Head(todo))
          /\ \A key \in DOMAIN daemon.result_cache \cap DOMAIN daemon'.result_cache :
               daemon'.result_cache[key] = daemon.result_cache[key]]_vars
  /\ [][(ppc = "invalidate" /\ todo' # todo) =>
          \A key \in DOMAIN daemon'.result_cache : ~DirIsPrefixOf(key, Head(todo))]_vars

\* a result is cached whose two files were hashed at different times: one
\* was invalidated and read again, the other kept its entry
C33_Witness ==
  /\ nfs = 1
  /\ hist.windows = 1
  /\ pending = EmptyMap
  /\ ppc = "select"
  /\ \E key \in DOMAIN daemon.result_cache :
       /\ daemon.result_cache[key].file_count = 2
       /\ \E f \in DOMAIN daemon.file_cache :
            /\ {f} \in SUBSET UNION Contributors(daemon, key)
            /\ fs[FileOf[f]] = Content2
            /\ daemon.file_cache[f] = hash_file(Content2)
  /\ \E s \in Sessions :
       /\ Len(out[s]) = 2
       /\ out[s][1].type = "hash" /\ out[s][2].type = "hash"
       /\ out[s][1].hash # out[s][2].hash


\* a changed path c lies under the directory r/p of a subscription and its
\* path relative to r/p matches the glob: both sides canonical when both
\* can be canonicalized, both as given otherwise
LiesUnderAndMatches(fsys, c, sub) ==
  LET dir == path_join(sub.root, sub.path)
      cd == canonicalize(fsys, dir)
      cc == canonicalize(fsys, c)
      a == IF cd.ok /\ cc.ok THEN cc.path ELSE c
      b == IF cd.ok /\ cc.ok THEN cd.path ELSE dir
  IN  /\ starts_with_components(a, b)
      /\ glob_is_valid(sub.glob)
      /\ glob_is_match(sub.glob, strip_prefix(a, b))

\* C34: in each flush, for every subscription (key, (r, p, g)) the pipeline
\* broadcasts at most one record; its paths are exactly the flushed paths
\* that lie under r/p and whose path relative to r/p matches g, and a
\* subscription with no such path gets no record (seen at every receiver
\* that has lost no record).
C34_OneRecordWithMatchingPaths ==
  [][(ppc = "match" /\ ppc' = "select") =>
       \A s \in Sessions :
         (spc[s] # "closed" /\ ~lagged'[s]) =>
            LET new == SubSeq(rx'[s], Len(rx[s]) + 1, Len(rx'[s]))
            IN  \A k \in DOMAIN subscriptions :
                  LET want == SelectSeq(ready, LAMBDA c :
                                          LiesUnderAndMatches(fs, c, subscriptions[k]))
                      recs == RecordsFor(new, k)
                  IN  IF want = <<>> THEN recs = <<>>
                      ELSE Len(recs) = 1 /\ recs[1].paths = want]_vars


\* C35: the persisted watch entries change only when a watch or a
\* hash(persistent = true) inserts its own entry; no request removes an
\* entry, and hash(persistent = false), malformed requests, filesystem
\* events, the pipeline, the flusher and the end of a connection leave them
\* as they are. A watcher enters the watcher map only in the restore, in a
\* watch or in a hash(persistent = true), never in a hash(persistent = false).
C35_PersistedChangesByInsertionOnly ==
  [][/\ persisted' # persisted =>
          \E s \in Sessions :
            \/ /\ spc[s] = "watch_persist" /\ spc'[s] = "watch_register"
               /\ persisted' = persisted \cup {EntryOf(Parsed(s))}
            \/ /\ spc[s] = "read" /\ spc'[s] = "hash_daemon"
               /\ parse_request(req'[s]).persistent
               /\ persisted' = persisted \cup {EntryOf(parse_request(req'[s]))}
     /\ daemon'.root_watchers # daemon.root_watchers =>
          \/ restore_todo' # restore_todo
          \/ \E s \in Sessions :
               \/ spc[s] = "read" /\ spc'[s] = "watch_persist"
               \/ spc[s] = "hash_daemon" /\ Parsed(s).persistent
     /\ \A s \in Sessions :
          (spc[s] = "read" /\ spc'[s] = "read" /\ nreq' # nreq /\ out'[s] # out[s]) =>
             /\ persisted' = persisted
             /\ daemon'.root_watchers = daemon.root_watchers
             /\ watcher_installs' = watcher_installs]_vars

\* a hash(persistent = false) was answered with a hash: nothing is
\* persisted, no watcher exists
C35_Witness ==
  /\ \E s \in Sessions : Len(out[s]) = 1 /\ out[s][1].type = "hash"
  /\ nreq = 1
  /\ persisted = {}
  /\ daemon.root_watchers = {}
  /\ DOMAIN daemon.result_cache # {}
  /\ restore_todo = {}
  /\ nfs = 1


\* what a fresh computation over the current files gives for a query
FreshResult(fsys, key) ==
  LET F == list_files(fsys, key.root, key.path, key.glob)
      order == CHOOSE o \in Permutations_of(F) : TRUE
  IN  [hash |-> aggregate_hashes([i \in 1..Len(order) |-> hash_file(fsys[FileOf[order[i]]])]),
       file_count |-> Cardinality(F)]

\* every cache entry under root r is what a fresh computation gives
Coherent(r) ==
  /\ \A f \in DOMAIN daemon.file_cache :
       path_starts_with(f, r) =>
         /\ fs[FileOf[f]] # NoFile
         /\ daemon.file_cache[f] = hash_file(fs[FileOf[f]])
  /\ \A key \in DOMAIN daemon.result_cache :
       starts_with_components(path_join(key.root, key.path), r) =>
         daemon.result_cache[key] = FreshResult(fs, key)

\* no event waits in the channel or in pending, and no flush is under way
Quiescent == event_q = <<>> /\ pending = EmptyMap /\ ppc = "select"

NoRequestInProgress == \A s \in Sessions : spc[s] \in {"read", "closed"}

\* C37: no orphan watcher. Whenever no request is in progress, every root
\* of the watcher map is the root of a Subscriptions entry or of a persisted
\* WatchEntry, however the watch, unwatch and hash(persistent = true)
\* requests of the sessions interleave.
C37_NoOrphanWatcher ==
  NoRequestInProgress =>
    \A r \in daemon.root_watchers :
      \/ \E k \in DOMAIN subscriptions : subscriptions[k].root = r
      \/ \E e \in persisted : e.root = r

\* a persistent hash installed the watcher of a root that has no
\* subscription, and a session has been answered an unwatch
C37_Witness ==
  /\ NoRequestInProgress
  /\ nreq = MaxReqs
  /\ \E r \in daemon.root_watchers :
       /\ \A k \in DOMAIN subscriptions : subscriptions[k].root # r
       /\ \E e \in persisted : e.root = r
  /\ \E s \in Sessions :
       /\ unwatched[s] # {}
       /\ out[s] # <<>> /\ out[s][Len(out[s])] = ResponseOk
  /\ \E s \in Sessions : \E i \in 1..Len(out[s]) : out[s][i].type = "hash"


\* C38: subscriptions are restart-safe. Whenever no request is in progress,
\* every key of the global Subscriptions map has its (root, path, glob) as
\* a WatchEntry in the persisted state, however the watch and unwatch
\* requests of concurrent sessions for one tuple interleave.
C38_SubscriptionsArePersisted ==
  NoRequestInProgress =>
    \A k \in DOMAIN subscriptions :
      [root |-> subscriptions[k].root, path |-> subscriptions[k].path,
       glob |-> subscriptions[k].glob] \in persisted

\* both sessions watched Q1 and one of them has unwatched it since
C38_Witness ==
  /\ NoRequestInProgress
  /\ KeyOf[Q1] \in DOMAIN subscriptions
  /\ Q1 \in persisted
  /\ session[1] = {}
  /\ KeyOf[Q1] \in unwatched[1]
  /\ out[1] = <<ResponseWatch(KeyOf[Q1]), ResponseOk>>
  /\ session[2] = {KeyOf[Q1]}


\* the lines a step wrote to the socket of s
Written(s) == SubSeq(out'[s], Len(out[s]) + 1, Len(out'[s]))

EventLines(lines) == \A i \in 1..Len(lines) : lines[i].type = "event"

\* one response line first, then event lines only
ResponseThenEvents(lines) ==
  /\ lines # <<>>
  /\ lines[1].type # "event"
  /\ EventLines(Tail(lines))

\* C39: on one connection no event carrying a key is written before a {key}
\* acknowledgement of that key; the socket only grows; a request line is
\* answered by exactly one response line, the first line written after it
\* was read and written before the task is back at read_line; whatever
\* else is written is event lines.
C39_AckFirstOneResponseEach ==
  /\ [](\A s \in Sessions : \A i \in 1..Len(out[s]) :
          out[s][i].type = "event" =>
            \E j \in 1..(i - 1) : out[s][j] = ResponseWatch(out[s][i].key))
  /\ [][\A s \in Sessions :
          /\ Len(out'[s]) >= Len(out[s])
          /\ SubSeq(out'[s], 1, Len(out[s])) = out[s]
          /\ (spc[s] # "read" /\ spc'[s] = "read") => ResponseThenEvents(Written(s))
          /\ (spc[s] # "read" /\ spc'[s] # "read") => Written(s) = <<>>
          /\ (spc[s] = "read" /\ spc'[s] # "read") => Written(s) = <<>>
          /\ (spc[s] = "read" /\ spc'[s] = "read" /\ nreq' = nreq) =>
                EventLines(Written(s))]_vars
  /\ [][(nreq' # nreq /\ spc' = spc) =>
          \E s \in Sessions :
            /\ spc[s] = "read"
            /\ ResponseThenEvents(Written(s))
            /\ \A t \in Sessions \ {s} : out'[t] = out[t]]_vars

\* session 1 was acknowledged its watch, received an event of the key and
\* was then answered an unwatch
C39_Witness ==
  /\ Len(out[1]) = 3
  /\ out[1][1] = ResponseWatch(KeyOf[Q1])
  /\ out[1][2].type = "event"
  /\ out[1][2].key = KeyOf[Q1]
  /\ out[1][3] = ResponseOk
  /\ spc[1] = "read"


\* the task is inside a run
MidRun(t) == calc.at[t] <= Len(calc.run[t])

\* the task waits for a lock that cannot be granted now
Blocked(t) ==
  /\ MidRun(t)
  /\ calc.run[t][calc.at[t]].op = "acquire"
  /\ ~Grantable(calc.held, t, calc.run[t][calc.at[t]])

\* C40: the daemon is deadlock-free. In every reachable state a task that
\* waits for one of the three locks waits for a holder that is inside its
\* run and does not wait itself; and under fair scheduling every request a
\* connection has started is carried through to the write of its response,
\* whatever the other connection, the pipeline, the flusher, restore and
\* the re-hash tasks do meanwhile.
C40_NoTaskBlockedForever ==
  /\ [](calc.fn = "locks" =>
          \A t \in LockTasks :
            Blocked(t) =>
              \E u \in LockTasks \ {t} :
                /\ \E h \in calc.held[u] : h.lock = calc.run[t][calc.at[t]].lock
                /\ MidRun(u)
                /\ ~Blocked(u))
  /\ \A t \in {"connection 1", "connection 2"} :
       (calc.fn = "locks" /\ MidRun(t)) ~> ~MidRun(t)

\* both connections wait in a hash for the daemon lock, which the pipeline
\* holds
C40_Witness ==
  /\ calc.fn = "locks"
  /\ calc.run["connection 1"] = hash_locks(TRUE)
  /\ calc.run["connection 2"] = hash_locks(FALSE)
  /\ Blocked("connection 1")
  /\ Blocked("connection 2")
  /\ calc.held["pipeline"] = {[lock |-> "daemon", mode |-> "write"]}

====
